---- MODULE Spec2Model ----
(***************************************************************************)
(* Model of the BRSR disclosure extraction engine of                       *)
(* src/streamlit_esg_dashboard.py: EnhancedBRSRParser (number cleaning,    *)
(* pattern and table search, the three metric extractors, parse) and       *)
(* BRSRExtractedData.to_esg_input.                                         *)
(*                                                                         *)
(* Representation.                                                         *)
(*  - A character is a one-element string; a Python str is a sequence of   *)
(*    characters.  Characters outside ASCII are named: "endash", "uminus", *)
(*    "rupee", "euro", "pound", "yen".                                     *)
(*  - A Python float is a fixed-point integer counting 1/Scale units, so   *)
(*    12000.0 is 12000 * Scale and 0.5 is Scale \div 2.                    *)
(*  - Optional[float] is a sequence: None is << >>, a number v is <<v>>.   *)
(*  - The document text is a sequence of sentences separated by ";\n".     *)
(*    A sentence is [ph |-> phrase, raw |-> characters]: the phrase names  *)
(*    the wording (see Hits) and raw is the number written in it.  The     *)
(*    separator keeps every regular expression of the source from matching *)
(*    across two sentences, so a pattern's matches in the text are its     *)
(*    matches in the sentences, in order.                                  *)
(***************************************************************************)
EXTENDS Integers, Sequences, FiniteSets, TLC

\* Fixed-point denominator standing for Python's float.
Scale == 100

\* Bounds of the input space: the sentences of a report, and the pieces a
\* string given to _clean_number is made of.
MaxLen == 2
MaxPieces == 2
MaxUploads == 2

None == << >>
Some(v) == <<v>>

-----------------------------------------------------------------------------
(* Characters                                                              *)

Digits == <<"0", "1", "2", "3", "4", "5", "6", "7", "8", "9">>
IsDigit(c) == \E i \in 1..10 : Digits[i] = c
DigitVal(c) == (CHOOSE i \in 1..10 : Digits[i] = c) - 1

Upper == <<"A","B","C","D","E","F","G","H","I","J","K","L","M",
           "N","O","P","Q","R","S","T","U","V","W","X","Y","Z">>
Lower == <<"a","b","c","d","e","f","g","h","i","j","k","l","m",
           "n","o","p","q","r","s","t","u","v","w","x","y","z">>
\* str.lower() on one character
LowerChar(c) == IF \E i \in 1..26 : Upper[i] = c
                THEN Lower[CHOOSE i \in 1..26 : Upper[i] = c]
                ELSE c
\* str.lower()
LowerStr(s) == [i \in 1..Len(s) |-> LowerChar(s[i])]

\* \s of the regular expressions and of str.strip()
IsSpace(c) == c \in {" ", "\t", "\n", "\r"}

\* s without the characters satisfying Drop (re.sub(r'[...]', '', s))
RECURSIVE RemoveChars(_, _)
RemoveChars(s, drop) ==
    IF s = << >> THEN << >>
    ELSE IF Head(s) \in drop THEN RemoveChars(Tail(s), drop)
         ELSE <<Head(s)>> \o RemoveChars(Tail(s), drop)

\* str.strip()
RECURSIVE LStrip(_)
LStrip(s) == IF s # << >> /\ IsSpace(Head(s)) THEN LStrip(Tail(s)) ELSE s
RECURSIVE RStrip(_)
RStrip(s) == IF s # << >> /\ IsSpace(s[Len(s)]) THEN RStrip(SubSeq(s, 1, Len(s) - 1)) ELSE s
Strip(s) == RStrip(LStrip(s))

\* str.endswith(suffix)
EndsWith(s, suffix) ==
    /\ Len(s) >= Len(suffix)
    /\ SubSeq(s, Len(s) - Len(suffix) + 1, Len(s)) = suffix
\* s without its last n characters
DropLast(s, n) == SubSeq(s, 1, Len(s) - n)

-----------------------------------------------------------------------------
(* NUMBER EXTRACTION HELPERS                                               *)

\* The value of a string of decimal digits
RECURSIVE DigitsVal(_)
DigitsVal(s) ==
    IF s = << >> THEN 0
    ELSE DigitsVal(SubSeq(s, 1, Len(s) - 1)) * 10 + DigitVal(s[Len(s)])

RECURSIVE Pow10(_)
Pow10(n) == IF n = 0 THEN 1 ELSE 10 * Pow10(n - 1)

AllDigits(s) == \A i \in 1..Len(s) : IsDigit(s[i])

\* float(s) for an unsigned decimal literal whose only point is at d
PointLiteral(s, d) ==
    IF /\ AllDigits(SubSeq(s, 1, d - 1))
       /\ AllDigits(SubSeq(s, d + 1, Len(s)))
       /\ Len(s) > 1
    THEN Some(DigitsVal(SubSeq(s, 1, d - 1)) * Scale
              + (DigitsVal(SubSeq(s, d + 1, Len(s))) * Scale) \div Pow10(Len(s) - d))
    ELSE None

Points(s) == {i \in 1..Len(s) : s[i] = "."}

\* The floats that are not finite.  Infinity is float('inf'), above every
\* finite value of the model; NaN is float('nan'), which no comparison
\* holds of.
Infinity == 1000000000
NaN == 0 - Infinity - 1
InfinityWords == { <<"i","n","f">>, <<"i","n","f","i","n","i","t","y">> }
NanWords == { <<"n","a","n">> }

\* float(s) for an unsigned literal: 'inf', 'infinity' and 'nan' in any case,
\* or decimal digits with at most one point and at least one digit.  None
\* stands for ValueError.  Fraction digits beyond the fixed-point resolution
\* are truncated.  (Exponents and digit-group underscores, which float()
\* also reads, are written in no document of the model.)
ParseUnsigned(s) ==
    IF LowerStr(s) \in InfinityWords THEN Some(Infinity)
    ELSE IF LowerStr(s) \in NanWords THEN Some(NaN)
    ELSE IF Points(s) = {} THEN
        IF s # << >> /\ AllDigits(s) THEN Some(DigitsVal(s) * Scale) ELSE None
    ELSE IF Cardinality(Points(s)) > 1 THEN None
    ELSE PointLiteral(s, CHOOSE i \in Points(s) : TRUE)

Negated(u) == IF u = None THEN None ELSE IF u[1] = NaN THEN u ELSE Some(0 - u[1])

\* float(s): an optional sign, then an unsigned literal
ParseFloat(s) ==
    IF s # << >> /\ Head(s) = "-" THEN Negated(ParseUnsigned(Tail(s)))
    ELSE IF s # << >> /\ Head(s) = "+" THEN ParseUnsigned(Tail(s))
    ELSE ParseUnsigned(s)

\* The words _clean_number turns into 0.0 (line 675)
NullTokens ==
    { <<"z","e","r","o">>, <<"n","i","l">>, <<"n","a">>, <<"n","/","a">>,
      <<"-">>, <<"endash">>, <<"n","o","n","e">>,
      <<"n","o","t"," ","a","p","p","l","i","c","a","b","l","e">> }

CurrencySymbols == {"rupee", "$", "euro", "pound", "yen"}

CroreSuffixes == { <<"c","r">>, <<"c","r","o","r","e">>, <<"c","r","o","r","e","s">> }
LakhSuffixes == { <<"l","a","k","h">>, <<"l","a","k","h","s">>, <<"l","a","c">> }
MillionSuffixes == { <<"m","n">>, <<"m","i","l","l","i","o","n">> }

HasSuffix(s, suffixes) == \E x \in suffixes : EndsWith(LowerStr(s), x)
\* re.sub(r'(?i)(a|b|c)$', '', s): the alternatives end in different letters,
\* so at most one of them is a suffix of s
StripSuffix(s, suffixes) ==
    IF HasSuffix(s, suffixes)
    THEN DropLast(s, Len(CHOOSE x \in suffixes : EndsWith(LowerStr(s), x)))
    ELSE s

\* multiplier, as a divisor: 1 is x1, 100 is x0.01, 10 is x0.1
Divisor(s) ==
    IF HasSuffix(s, CroreSuffixes) THEN 1
    ELSE IF HasSuffix(s, LakhSuffixes) THEN 100
    ELSE IF HasSuffix(s, MillionSuffixes) THEN 10
    ELSE 1

Unsuffixed(s) ==
    IF HasSuffix(s, CroreSuffixes) THEN StripSuffix(s, CroreSuffixes)
    ELSE IF HasSuffix(s, LakhSuffixes) THEN StripSuffix(s, LakhSuffixes)
    ELSE IF HasSuffix(s, MillionSuffixes) THEN StripSuffix(s, MillionSuffixes)
    ELSE s

\* '(' ... ')' becomes '-' ...
Unparen(s) ==
    IF s # << >> /\ Head(s) = "(" /\ s[Len(s)] = ")" /\ Len(s) >= 2
    THEN <<"-">> \o SubSeq(s, 2, Len(s) - 1)
    ELSE s

Abs(x) == IF x < 0 THEN 0 - x ELSE x

\* float(cleaned) * multiplier in fixed point, rounding towards zero
Times(x, divisor) ==
    IF x \in {Infinity, 0 - Infinity, NaN} THEN x
    ELSE IF x < 0 THEN 0 - ((0 - x) \div divisor) ELSE x \div divisor

\* value.replace(U+2212, '-')
MinusSigns(s) == [i \in 1..Len(s) |-> IF s[i] = "uminus" THEN "-" ELSE s[i]]

\* lines 679-694: separators, the minus sign, '%', parentheses, currency
Cleaned(v) ==
    RemoveChars(
        Unparen(RemoveChars(MinusSigns(RemoveChars(v, {",", " ", "\t", "\n", "\r"})), {"%"})),
        CurrencySymbols)

\* abs(result) whatever allow_negative says
AlwaysAbs(result, allow_negative) == IF result # NaN THEN Abs(result) ELSE result

\* lines 706-708: the sign of the result
Signed(result, allow_negative) ==
    IF ~allow_negative /\ result # NaN /\ result < 0 THEN Abs(result) ELSE result

\* lines 704-710: float(value) * multiplier, 0.0 on ValueError
Converted(f, divisor, allow_negative) ==
    IF f = None THEN 0 ELSE Signed(Times(f[1], divisor), allow_negative)

\* lines 696-710 on the cleaned string
CleanedNumber(c, allow_negative) ==
    Converted(ParseFloat(Unsuffixed(c)), Divisor(c), allow_negative)

\* lines 672-710 on the stripped string
StrippedNumber(v, allow_negative) ==
    IF LowerStr(v) \in NullTokens THEN 0
    ELSE CleanedNumber(Cleaned(v), allow_negative)

\* EnhancedBRSRParser._clean_number
clean_number(value, allow_negative) ==
    IF value = << >> THEN 0
    ELSE StrippedNumber(Strip(value), allow_negative)

-----------------------------------------------------------------------------
(* PATTERN MATCHING                                                        *)
(*                                                                         *)
(* A pattern is named after its list in the source and its place in the    *)
(* list: "board_3" is the third expression of board_patterns.  The         *)
(* wordings of the sentences, and the expressions each one matches         *)
(* (re.IGNORECASE | re.MULTILINE, the group capturing the number), are:    *)
(*   energy_total     Total energy consumption: N GJ                       *)
(*   scope1           Scope 1: N tCO2e                                     *)
(*   scope2           Scope 2: N tCO2e                                     *)
(*   ghg_total        Total GHG emissions: N                               *)
(*   env_fine         Environmental fine: N                                *)
(*   no_env_fines     no environmental fines                               *)
(*   fatalities_n     Fatalities: N                                        *)
(*   zero_fatalities  zero fatalities                                      *)
(*   child_labour_n   Child labour incidents: N                            *)
(*   no_child_labour  no child labour                                      *)
(*   data_breaches_n  Data breaches: N                                     *)
(*   no_data_breaches no data breaches                                     *)
(*   board_comprises  The board comprises N directors                      *)
(*   board_size       Board size: N                                        *)
(*   independent_n    Independent directors: N                             *)
(*   corruption_n     Corruption cases: N                                  *)
(*   no_corruption    no corruption                                        *)
(*   turnover_cr      Turnover: N Cr                                       *)
(*   employees_total  Total employees: N                                   *)
(*   fy               FY N-24            (N the first year, four digits)   *)
(*   entity_name      Name of the listed entity: N        (N the name)     *)
(*   cin_line         CIN: N             (N a corporate identity number)   *)
(*   renewable_n      Renewable energy consumption: N GJ                   *)
(*   water_total      Total water withdrawal: N KL                         *)
(*   water_recycled_n Water recycled: N KL                                 *)
(*   waste_recycled_n Waste recycled: N MT                                 *)
(*   women_n          Women employees: N                                   *)
(*   women_pct_n      Women: N%                                            *)
(*   training_n       Total training hours: N                              *)
(*   csr_n            CSR expenditure: N                                   *)
(*   csr_required_n   CSR obligation: N                                    *)
(*   complaints_n     Customer complaints received: N                      *)
(*   resolved_n       Complaints resolved: N                               *)
(*   women_board_n    Women directors: N                                   *)
(*   posh_n           POSH complaints: N                                   *)

\* the wordings whose sentences match a pattern of the source's lists
Wordings ==
    {"energy_total", "scope1", "scope2", "ghg_total", "env_fine", "fatalities_n",
      "child_labour_n", "data_breaches_n", "board_comprises", "board_size",
      "independent_n", "corruption_n", "turnover_cr", "employees_total", "fy",
      "entity_name", "cin_line", "renewable_n", "water_total", "water_recycled_n",
      "waste_recycled_n", "women_n", "women_pct_n", "training_n", "csr_n",
      "csr_required_n", "complaints_n", "resolved_n", "women_board_n", "posh_n" }

\* The patterns of the source's lists that match a sentence of each wording
HitsBy ==
    [ph \in Wordings |->
        CASE ph = "energy_total"    -> {"energy_1", "energy_2"}
          [] ph = "scope1"          -> {"scope1_1"}
          [] ph = "scope2"          -> {"scope2_1"}
          [] ph = "ghg_total"       -> {"total_ghg_1"}
          [] ph = "env_fine"        -> {"fines_1"}
          [] ph = "fatalities_n"    -> {"fatality_1"}
          [] ph = "child_labour_n"  -> {"child_labor_1"}
          [] ph = "data_breaches_n" -> {"breach_1"}
          [] ph = "board_comprises" -> {"board_1"}
          [] ph = "board_size"      -> {"board_3"}
          [] ph = "independent_n"   -> {"independent_1"}
          [] ph = "corruption_n"    -> {"corruption_1"}
          [] ph = "turnover_cr"     -> {"revenue_1"}
          [] ph = "employees_total" -> {"employee_1", "employee_2"}
          [] ph = "fy"              -> {"fy_1", "fy_3"}
          [] ph = "entity_name"     -> {"company_1"}
          [] ph = "cin_line"        -> {"cin"}
          [] ph = "renewable_n"     -> {"energy_2", "renewable_1"}
          [] ph = "water_total"     -> {"water_1"}
          [] ph = "water_recycled_n" -> {"water_recycled_1"}
          [] ph = "waste_recycled_n" -> {"waste_recycled_1"}
          [] ph = "women_n"         -> {"women_1"}
          [] ph = "women_pct_n"     -> {"women_pct_1"}
          [] ph = "training_n"      -> {"training_1"}
          [] ph = "csr_n"           -> {"csr_1"}
          [] ph = "csr_required_n"  -> {"csr_required_1"}
          [] ph = "complaints_n"    -> {"customer_complaint_1", "customer_complaint_3"}
          [] ph = "resolved_n"      -> {"resolved_1"}
          [] ph = "women_board_n"   -> {"women_board_1"}
          [] ph = "posh_n"          -> {"posh_1"} ]

\* the patterns that match a sentence of this wording
Hits(ph) == IF ph \in Wordings THEN HitsBy[ph] ELSE {}

\* re.search(expr, self.text, re.IGNORECASE) for the phrase searches of the
\* extractors: does the sentence match the expression
PhraseHit(expr, s) ==
    CASE expr = "fines_null"       -> s.ph = "no_env_fines"
      [] expr = "fatalities_null"  -> \/ s.ph = "zero_fatalities"
                                      \/ s.ph = "fatalities_n" /\ s.raw # << >> /\ Head(s.raw) = "0"
      [] expr = "child_labor_null" -> s.ph = "no_child_labour"
      [] expr = "breach_null"      -> s.ph = "no_data_breaches"
      [] expr = "corruption_null"  -> s.ph = "no_corruption"
      [] OTHER                     -> FALSE

\* re.match in place of re.search: the expression is tried at the start of
\* the text only
TextStartsWith(expr, text) == text # << >> /\ PhraseHit(expr, text[1])

\* re.search(expr, self.text, re.IGNORECASE) is not None
TextHas(expr, text) == \E i \in 1..Len(text) : PhraseHit(expr, text[i])

\* if num >= 0: return num
NonNegative(num) == IF num # NaN /\ num >= 0 THEN Some(num) ELSE None

\* if num > 0: return num
Positive(num) == IF num # NaN /\ num > 0 THEN Some(num) ELSE None

\* r when the search returned at r, else what the rest of the search returns
OrElse(r, rest) == IF r # None THEN r ELSE rest

\* the group of any sentence taken for a match of the pattern
AnySentenceNumber(pattern, s) ==
    IF s.raw # << >> THEN Positive(clean_number(s.raw, FALSE)) ELSE None

\* One match of the pattern in sentence s: its group, when not empty, cleaned
\* and returned when > 0 (lines 757-763)
GroupNumber(pattern, s) ==
    IF pattern \in Hits(s.ph) /\ s.raw # << >>
    THEN Positive(clean_number(s.raw, FALSE))
    ELSE None

\* for match in matches, from sentence i on (lines 754-763)
RECURSIVE FirstPositive(_, _, _)
FirstPositive(pattern, text, i) ==
    IF i > Len(text) THEN None
    ELSE OrElse(GroupNumber(pattern, text[i]), FirstPositive(pattern, text, i + 1))

\* the patterns searched from the last to the first: a later pattern's number
\* replaces an earlier one's
RECURSIVE SearchLastWins(_, _)
SearchLastWins(patterns, text) ==
    IF patterns = << >> THEN None
    ELSE OrElse(SearchLastWins(Tail(patterns), text), FirstPositive(Head(patterns), text, 1))

\* EnhancedBRSRParser._search_patterns: the patterns in their listed order,
\* each over all its matches; the first number > 0 is returned
RECURSIVE search_patterns(_, _)
search_patterns(patterns, text) ==
    IF patterns = << >> THEN None
    ELSE OrElse(FirstPositive(Head(patterns), text, 1), search_patterns(Tail(patterns), text))

(* A table is a sequence of rows, a row a sequence of cells, a cell a      *)
(* string.  The row expressions of the source that match a label cell:     *)
TotalEnergyCell == <<"T","o","t","a","l"," ","e","n","e","r","g","y">>
TotalEmployeesCell == <<"T","o","t","a","l"," ","e","m","p","l","o","y","e","e","s">>
\* a label cell that no row expression of the source matches
Scope1Cell == <<"S","c","o","p","e"," ","1">>

CellHits(cell) ==
    CASE cell = TotalEnergyCell    -> {"energy_row_1"}
      [] cell = TotalEmployeesCell -> {"employees_row_1"}
      [] OTHER                     -> {}

\* re.search(pattern, row_text) for some pattern of the list
RowMatches(row_patterns, row) ==
    \E k \in 1..Len(row_patterns) : \E j \in 1..Len(row) : row_patterns[k] \in CellHits(row[j])

\* for cell in reversed(row): the rightmost cell that cleans to a number > 0
RECURSIVE RightmostPositive(_, _)
RightmostPositive(row, j) ==
    IF j < 1 THEN None
    ELSE OrElse(Positive(clean_number(row[j], FALSE)), RightmostPositive(row, j - 1))

\* What a matching row yields: the cell at col_index when one is given and
\* lies in the row (0-based), else the rightmost positive cell
RowValue(row, col_index) ==
    IF col_index >= 0 /\ col_index < Len(row)
    THEN Positive(clean_number(row[col_index + 1], FALSE))
    ELSE RightmostPositive(row, Len(row))

\* The rows of all tables, in order
RECURSIVE AllRows(_)
AllRows(tabs) == IF tabs = << >> THEN << >> ELSE Head(tabs) \o AllRows(Tail(tabs))

\* what one row returns, if it returns
RowResult(row_patterns, row, col_index) ==
    IF row # << >> /\ RowMatches(row_patterns, row) THEN RowValue(row, col_index) ELSE None

RECURSIVE FirstRowValue(_, _, _, _)
FirstRowValue(row_patterns, rows, col_index, i) ==
    IF i > Len(rows) THEN None
    ELSE OrElse(RowResult(row_patterns, rows[i], col_index),
                FirstRowValue(row_patterns, rows, col_index, i + 1))

\* EnhancedBRSRParser._search_table_patterns
search_table_patterns(row_patterns, col_index, tabs) ==
    FirstRowValue(row_patterns, AllRows(tabs), col_index, 1)

\* Python truthiness of an Optional[float]: neither None nor 0
Truthy(r) == r # None /\ r[1] # 0

\* int(x) of a finite float that is not negative
IntOf(x) == (x \div Scale) * Scale

\* int(x) raises OverflowError on an infinite float
IntRaises(x) == x = Infinity

\* a / b with b = 0 raises ZeroDivisionError: the value that stands for a
\* call that failed with it
ZeroDivisionError == 0 - Infinity - 2

\* a / b in fixed point (a >= 0), rounding towards zero
Quot(a, b) ==
    IF b = 0 THEN ZeroDivisionError ELSE (a \div b) * Scale + ((a % b) * Scale) \div b

\* (a / b) * 100 in fixed point
Percent(a, b) == Quot(a * 100, b)

-----------------------------------------------------------------------------
(* The expression lists of the extractors, in their listed order           *)

fy_patterns == <<"fy_1", "fy_2", "fy_3">>
revenue_patterns == <<"revenue_1", "revenue_2", "revenue_3">>
networth_patterns == <<"networth_1">>
energy_patterns == <<"energy_1", "energy_2", "energy_3", "energy_4">>
renewable_patterns == <<"renewable_1", "renewable_2", "renewable_3", "renewable_4">>
intensity_patterns == <<"intensity_1", "intensity_2">>
scope1_patterns == <<"scope1_1", "scope1_2", "scope1_3">>
scope2_patterns == <<"scope2_1", "scope2_2", "scope2_3">>
scope3_patterns == <<"scope3_1">>
total_ghg_patterns == <<"total_ghg_1", "total_ghg_2">>
emission_intensity_patterns == <<"emission_intensity_1", "emission_intensity_2">>
water_patterns == <<"water_1", "water_2", "water_3">>
water_recycled_patterns == <<"water_recycled_1", "water_recycled_2", "water_recycled_3">>
waste_patterns == <<"waste_1", "waste_2", "waste_3">>
hazardous_patterns == <<"hazardous_1", "hazardous_2">>
waste_recycled_patterns == <<"waste_recycled_1", "waste_recycled_2", "waste_recycled_3">>
ewaste_patterns == <<"ewaste_1">>
plastic_patterns == <<"plastic_1">>
fines_patterns == <<"fines_1", "fines_2">>
employee_patterns == <<"employee_1", "employee_2", "employee_3", "employee_4", "employee_5", "employee_6">>
women_patterns == <<"women_1", "women_2", "women_3">>
women_pct_patterns == <<"women_pct_1", "women_pct_2", "women_pct_3">>
workers_patterns == <<"workers_1", "workers_2">>
pwd_patterns == <<"pwd_1">>
ltifr_patterns == <<"ltifr_1", "ltifr_2", "ltifr_3">>
fatality_patterns == <<"fatality_1", "fatality_2", "fatality_3">>
injury_patterns == <<"injury_1", "injury_2", "injury_3">>
mandays_patterns == <<"mandays_1", "mandays_2">>
training_patterns == <<"training_1", "training_2", "training_3">>
turnover_patterns == <<"turnover_1", "turnover_2", "turnover_3">>
child_labor_patterns == <<"child_labor_1">>
posh_patterns == <<"posh_1", "posh_2">>
discrimination_patterns == <<"discrimination_1">>
csr_patterns == <<"csr_1", "csr_2", "csr_3">>
csr_required_patterns == <<"csr_required_1", "csr_required_2">>
customer_complaint_patterns == <<"customer_complaint_1", "customer_complaint_2", "customer_complaint_3">>
resolved_patterns == <<"resolved_1", "resolved_2">>
breach_patterns == <<"breach_1", "breach_2">>
board_patterns == <<"board_1", "board_2", "board_3", "board_4">>
independent_patterns == <<"independent_1", "independent_2", "independent_3">>
women_board_patterns == <<"women_board_1", "women_board_2">>
board_meeting_patterns == <<"board_meeting_1", "board_meeting_2", "board_meeting_3">>
audit_patterns == <<"audit_1", "audit_2">>
csr_comm_patterns == <<"csr_comm_1", "csr_comm_2">>
ethics_patterns == <<"ethics_1">>
corruption_patterns == <<"corruption_1", "corruption_2">>
whistle_patterns == <<"whistle_1", "whistle_2">>
penalty_patterns == <<"penalty_1", "penalty_2">>
ratio_patterns == <<"ratio_1", "ratio_2">>
gov_training_patterns == <<"gov_training_1", "gov_training_2">>

\* the row expressions given to _search_table_patterns
energy_row_patterns == <<"energy_row_1", "energy_row_2", "energy_row_3">>
employee_row_patterns == <<"employees_row_1", "employees_row_2", "employees_row_3">>

-----------------------------------------------------------------------------
(* DATA CLASSES                                                            *)

\* EnvironmentalMetrics() with every field at its default
EnvironmentalMetrics ==
    [ total_energy_consumption |-> 0,
      renewable_energy |-> 0,
      non_renewable_energy |-> 0,
      renewable_energy_percentage |-> 0,
      energy_intensity |-> 0,
      energy_intensity_optional |-> 0,
      scope1_emissions |-> 0,
      scope2_emissions |-> 0,
      scope3_emissions |-> 0,
      total_ghg_emissions |-> 0,
      emission_intensity |-> 0,
      nox_emissions |-> 0,
      sox_emissions |-> 0,
      pm_emissions |-> 0,
      pop_emissions |-> 0,
      voc_emissions |-> 0,
      hap_emissions |-> 0,
      total_water_withdrawal |-> 0,
      water_from_surface |-> 0,
      water_from_ground |-> 0,
      water_from_third_party |-> 0,
      water_recycled |-> 0,
      water_recycling_percentage |-> 0,
      water_intensity |-> 0,
      zero_liquid_discharge |-> FALSE,
      total_waste_generated |-> 0,
      plastic_waste |-> 0,
      e_waste |-> 0,
      bio_medical_waste |-> 0,
      construction_waste |-> 0,
      battery_waste |-> 0,
      radioactive_waste |-> 0,
      other_hazardous_waste |-> 0,
      other_non_hazardous_waste |-> 0,
      hazardous_waste |-> 0,
      waste_recycled |-> 0,
      waste_recycling_percentage |-> 0,
      waste_to_landfill |-> 0,
      environmental_fines |-> 0,
      environmental_fines_count |-> 0,
      environmental_incidents |-> 0,
      eco_sensitive_operations |-> 0,
      eia_notifications |-> 0 ]

\* SocialMetrics() with every field at its default
SocialMetrics ==
    [ total_employees |-> 0,
      male_employees |-> 0,
      female_employees |-> 0,
      permanent_employees |-> 0,
      other_than_permanent |-> 0,
      workers_total |-> 0,
      male_workers |-> 0,
      female_workers |-> 0,
      permanent_workers |-> 0,
      contract_workers |-> 0,
      women_employees |-> 0,
      women_percentage |-> 0,
      differently_abled |-> 0,
      differently_abled_percentage |-> 0,
      new_hires_permanent |-> 0,
      new_hires_workers |-> 0,
      turnover_rate_employees |-> 0,
      turnover_rate_workers |-> 0,
      turnover_rate |-> 0,
      fatalities_employees |-> 0,
      fatalities_workers |-> 0,
      fatalities |-> 0,
      ltifr_employees |-> 0,
      ltifr_workers |-> 0,
      ltifr |-> 0,
      recordable_injuries_employees |-> 0,
      recordable_injuries_workers |-> 0,
      recordable_injuries |-> 0,
      high_consequence_injuries |-> 0,
      man_days_lost |-> 0,
      safety_incidents |-> 0,
      near_misses |-> 0,
      training_hours_employees_male |-> 0,
      training_hours_employees_female |-> 0,
      training_hours_workers_male |-> 0,
      training_hours_workers_female |-> 0,
      total_training_hours |-> 0,
      training_hours_per_employee |-> 0,
      employees_trained_percentage |-> 0,
      skill_upgradation_employees |-> 0,
      skill_upgradation_workers |-> 0,
      health_insurance_coverage |-> 0,
      accident_insurance_coverage |-> 0,
      maternity_benefits |-> 0,
      paternity_benefits |-> 0,
      daycare_facilities |-> 0,
      women_in_management |-> 0,
      women_on_board |-> 0,
      women_board_percentage |-> 0,
      child_labor_incidents |-> 0,
      forced_labor_incidents |-> 0,
      involuntary_labor_incidents |-> 0,
      discrimination_incidents |-> 0,
      sexual_harassment_complaints |-> 0,
      sexual_harassment_resolved |-> 0,
      human_rights_training_employees |-> 0,
      human_rights_training_workers |-> 0,
      minimum_wage_compliance |-> 0,
      csr_spending |-> 0,
      csr_spending_required |-> 0,
      csr_percentage |-> 0,
      beneficiaries_reached |-> 0,
      input_material_from_msme |-> 0,
      input_material_from_small_producers |-> 0,
      customer_complaints |-> 0,
      customer_complaints_resolved |-> 0,
      complaints_pending |-> 0,
      resolution_rate |-> 0,
      product_recalls |-> 0,
      cyber_security_incidents |-> 0,
      data_breaches |-> 0,
      consumer_cases_pending |-> 0 ]

\* GovernanceMetrics() with every field at its default
GovernanceMetrics ==
    [ board_size |-> 0,
      executive_directors |-> 0,
      non_executive_directors |-> 0,
      independent_directors |-> 0,
      independent_percentage |-> 0,
      women_directors |-> 0,
      women_board_percentage |-> 0,
      board_meetings |-> 0,
      board_attendance_average |-> 0,
      audit_committee_size |-> 0,
      audit_committee_independent |-> 0,
      audit_committee_meetings |-> 0,
      nomination_committee_meetings |-> 0,
      csr_committee_meetings |-> 0,
      risk_committee_meetings |-> 0,
      stakeholder_committee_meetings |-> 0,
      ethics_complaints |-> 0,
      ethics_complaints_resolved |-> 0,
      corruption_incidents |-> 0,
      disciplinary_actions |-> 0,
      whistleblower_complaints |-> 0,
      whistleblower_resolved |-> 0,
      directors_trained_anti_corruption |-> 0,
      kmps_trained_anti_corruption |-> 0,
      employees_trained_anti_corruption |-> 0,
      workers_trained_anti_corruption |-> 0,
      fines_penalties_amount |-> 0,
      fines_penalties_count |-> 0,
      legal_cases_pending |-> 0,
      rpt_value |-> 0,
      rpt_policy_compliance |-> 0,
      ceo_remuneration |-> 0,
      median_remuneration |-> 0,
      ceo_to_median_ratio |-> 0,
      policy_coverage_p1 |-> 0,
      policy_coverage_p2 |-> 0,
      policy_coverage_p3 |-> 0,
      policy_coverage_p4 |-> 0,
      policy_coverage_p5 |-> 0,
      policy_coverage_p6 |-> 0,
      policy_coverage_p7 |-> 0,
      policy_coverage_p8 |-> 0,
      policy_coverage_p9 |-> 0 ]


\* self.metrics_found[key] = value, on a dict held as a function
Record(found, key, value) ==
    [k \in (DOMAIN found) \cup {key} |-> IF k = key THEN value ELSE found[k]]

\* the threshold written as a fraction: result <= 1
One == Scale

\* the threshold of the unit heuristic: result <= 100
Hundred == 100 * Scale

-----------------------------------------------------------------------------
(* SECTION C - PRINCIPLE 6: ENVIRONMENT                                    *)

\* scope 1 added twice in place of scope 1 and scope 2
Scope1Twice(scope1, scope2) == scope1 + scope1

\* total_ghg_emissions when no total pattern matched (line 966)
DerivedTotalGhg(scope1, scope2) == scope1 + scope2

\* One statement of an extractor: st holds the local `metrics`,
\* self.metrics_found and whether a statement before it raised; result is
\* what the search before the statement returned.  After a raise no
\* statement runs.
Then(st, result, Stmt(_, _)) == IF st.raised THEN st ELSE Stmt(st, result)

\* a statement that follows no search
Do(st, Stmt(_)) == IF st.raised THEN st ELSE Stmt(st)

\* the statement raises: the exception leaves the extractor
Raised(st) == [st EXCEPT !.raised = TRUE]

\* EnhancedBRSRParser._extract_environmental: the metrics it returns and
\* self.metrics_found after it, given self.text, self.tables and
\* self.metrics_found before it
extract_environmental(text, tabs, found) ==
    LET s0 == [metrics |-> EnvironmentalMetrics, found |-> found, raised |-> FALSE]
        \* ENERGY
        s1 == Then(s0, search_patterns(energy_patterns, text), LAMBDA st, result :
                IF Truthy(result)
                THEN [st EXCEPT !.metrics.total_energy_consumption = result[1],
                                !.found = Record(@, "total_energy_consumption", result[1])]
                ELSE st)
        s2 == Then(s1, search_table_patterns(energy_row_patterns, -1, tabs), LAMBDA st, result :
                IF st.metrics.total_energy_consumption = 0 /\ Truthy(result)
                THEN [st EXCEPT !.metrics.total_energy_consumption = result[1]]
                ELSE st)
        s3 == Then(s2, search_patterns(renewable_patterns, text), LAMBDA st, result :
                IF Truthy(result)
                THEN IF result[1] <= Hundred
                     THEN [st EXCEPT !.metrics.renewable_energy_percentage = result[1],
                                     !.found = Record(@, "renewable_energy", result[1])]
                     ELSE [st EXCEPT !.metrics.renewable_energy = result[1],
                                     !.found = Record(@, "renewable_energy", result[1])]
                ELSE st)
        s4 == Do(s3, LAMBDA st :
                IF st.metrics.renewable_energy > 0 /\ st.metrics.total_energy_consumption > 0
                THEN [st EXCEPT !.metrics.renewable_energy_percentage =
                         Percent(st.metrics.renewable_energy, st.metrics.total_energy_consumption)]
                ELSE st)
        s5 == Then(s4, search_patterns(intensity_patterns, text), LAMBDA st, result :
                IF Truthy(result) THEN [st EXCEPT !.metrics.energy_intensity = result[1]] ELSE st)
        \* EMISSIONS
        s6 == Then(s5, search_patterns(scope1_patterns, text), LAMBDA st, result :
                IF Truthy(result)
                THEN [st EXCEPT !.metrics.scope1_emissions = result[1],
                                !.found = Record(@, "scope1_emissions", result[1])]
                ELSE st)
        s7 == Then(s6, search_patterns(scope2_patterns, text), LAMBDA st, result :
                IF Truthy(result)
                THEN [st EXCEPT !.metrics.scope2_emissions = result[1],
                                !.found = Record(@, "scope2_emissions", result[1])]
                ELSE st)
        s8 == Then(s7, search_patterns(scope3_patterns, text), LAMBDA st, result :
                IF Truthy(result) THEN [st EXCEPT !.metrics.scope3_emissions = result[1]] ELSE st)
        s9 == Then(s8, search_patterns(total_ghg_patterns, text), LAMBDA st, result :
                IF Truthy(result)
                THEN [st EXCEPT !.metrics.total_ghg_emissions = result[1]]
                ELSE [st EXCEPT !.metrics.total_ghg_emissions =
                         DerivedTotalGhg(st.metrics.scope1_emissions, st.metrics.scope2_emissions)])
        s10 == Do(s9, LAMBDA st :
                IF st.metrics.total_ghg_emissions > 0
                THEN [st EXCEPT !.found = Record(@, "total_ghg_emissions", st.metrics.total_ghg_emissions)]
                ELSE st)
        s11 == Then(s10, search_patterns(emission_intensity_patterns, text), LAMBDA st, result :
                IF Truthy(result) THEN [st EXCEPT !.metrics.emission_intensity = result[1]] ELSE st)
        \* WATER
        s12 == Then(s11, search_patterns(water_patterns, text), LAMBDA st, result :
                IF Truthy(result)
                THEN [st EXCEPT !.metrics.total_water_withdrawal = result[1],
                                !.found = Record(@, "total_water_withdrawal", result[1])]
                ELSE st)
        s13 == Then(s12, search_patterns(water_recycled_patterns, text), LAMBDA st, result :
                IF Truthy(result)
                THEN IF result[1] <= Hundred
                     THEN [st EXCEPT !.metrics.water_recycling_percentage = result[1],
                                     !.found = Record(@, "water_recycled", result[1])]
                     ELSE [st EXCEPT !.metrics.water_recycled = result[1],
                                     !.found = Record(@, "water_recycled", result[1])]
                ELSE st)
        s14 == Do(s13, LAMBDA st :
                IF st.metrics.water_recycled > 0 /\ st.metrics.total_water_withdrawal > 0
                THEN [st EXCEPT !.metrics.water_recycling_percentage =
                         Percent(st.metrics.water_recycled, st.metrics.total_water_withdrawal)]
                ELSE st)
        s15 == Do(s14, LAMBDA st :
                IF TextHas("zld", text) THEN [st EXCEPT !.metrics.zero_liquid_discharge = TRUE] ELSE st)
        \* WASTE
        s16 == Then(s15, search_patterns(waste_patterns, text), LAMBDA st, result :
                IF Truthy(result)
                THEN [st EXCEPT !.metrics.total_waste_generated = result[1],
                                !.found = Record(@, "total_waste_generated", result[1])]
                ELSE st)
        s17 == Then(s16, search_patterns(hazardous_patterns, text), LAMBDA st, result :
                IF Truthy(result) THEN [st EXCEPT !.metrics.hazardous_waste = result[1]] ELSE st)
        s18 == Then(s17, search_patterns(waste_recycled_patterns, text), LAMBDA st, result :
                IF Truthy(result)
                THEN IF result[1] <= Hundred
                     THEN [st EXCEPT !.metrics.waste_recycling_percentage = result[1],
                                     !.found = Record(@, "waste_recycled", result[1])]
                     ELSE [st EXCEPT !.metrics.waste_recycled = result[1],
                                     !.found = Record(@, "waste_recycled", result[1])]
                ELSE st)
        s19 == Then(s18, search_patterns(ewaste_patterns, text), LAMBDA st, result :
                IF Truthy(result) THEN [st EXCEPT !.metrics.e_waste = result[1]] ELSE st)
        s20 == Then(s19, search_patterns(plastic_patterns, text), LAMBDA st, result :
                IF Truthy(result) THEN [st EXCEPT !.metrics.plastic_waste = result[1]] ELSE st)
        \* COMPLIANCE
        s21 == Then(s20, search_patterns(fines_patterns, text), LAMBDA st, result :
                IF Truthy(result) THEN [st EXCEPT !.metrics.environmental_fines = result[1]] ELSE st)
        s22 == Do(s21, LAMBDA st :
                IF TextHas("fines_null", text) THEN [st EXCEPT !.metrics.environmental_fines = 0] ELSE st)
    IN  s22

-----------------------------------------------------------------------------
(* SECTION C - PRINCIPLE 3: EMPLOYEE WELLBEING                             *)

\* the derivation runs whatever the field holds
Always(value) == TRUE

\* `metrics.women_percentage == 0`, `metrics.training_hours_per_employee ==
\* 0`: the field a derivation is about to write holds no value yet (lines
\* 1134, 1218)
StillUnresolved(value) == value = 0

\* the women percentage derived ahead of the table fallback: the total read
\* is the one the text patterns left
EmployeesReadEarly(text_only, st) == text_only.metrics.total_employees

\* metrics.total_employees as the derivation of line 1134 reads it, in the
\* metrics st of that line: after the text patterns (text_only, lines
\* 1097-1100) and the table fallback (lines 1103-1110)
EmployeesRead(text_only, st) == st.metrics.total_employees

\* EnhancedBRSRParser._extract_social
extract_social(text, tabs, found) ==
    LET s0 == [metrics |-> SocialMetrics, found |-> found, raised |-> FALSE]
        \* EMPLOYEES
        s1 == Then(s0, search_patterns(employee_patterns, text), LAMBDA st, result :
                IF Truthy(result) /\ result[1] > 10 * Scale
                THEN IF IntRaises(result[1]) THEN Raised(st) ELSE
                     [st EXCEPT !.metrics.total_employees = IntOf(result[1]),
                                !.found = Record(@, "total_employees", IntOf(result[1]))]
                ELSE st)
        s2 == Then(s1, search_table_patterns(employee_row_patterns, -1, tabs), LAMBDA st, result :
                IF st.metrics.total_employees = 0 /\ Truthy(result) /\ result[1] > 10 * Scale
                THEN IF IntRaises(result[1]) THEN Raised(st) ELSE
                     [st EXCEPT !.metrics.total_employees = IntOf(result[1])]
                ELSE st)
        s3 == Then(s2, search_patterns(women_patterns, text), LAMBDA st, result :
                IF Truthy(result)
                THEN IF IntRaises(result[1]) THEN Raised(st) ELSE
                     [st EXCEPT !.metrics.women_employees = IntOf(result[1]),
                                !.metrics.female_employees = IntOf(result[1]),
                                !.found = Record(@, "women_employees", IntOf(result[1]))]
                ELSE st)
        s4 == Then(s3, search_patterns(women_pct_patterns, text), LAMBDA st, result :
                IF Truthy(result) /\ result[1] <= Hundred
                THEN [st EXCEPT !.metrics.women_percentage = result[1]]
                ELSE st)
        s5 == Do(s4, LAMBDA st :
                IF /\ StillUnresolved(st.metrics.women_percentage)
                   /\ st.metrics.women_employees > 0
                   /\ EmployeesRead(s1, st) > 0
                THEN [st EXCEPT !.metrics.women_percentage =
                         Percent(st.metrics.women_employees, EmployeesRead(s1, st))]
                ELSE st)
        s6 == Then(s5, search_patterns(workers_patterns, text), LAMBDA st, result :
                IF Truthy(result)
                THEN IF IntRaises(result[1]) THEN Raised(st) ELSE
                     [st EXCEPT !.metrics.workers_total = IntOf(result[1])]
                ELSE st)
        s7 == Then(s6, search_patterns(pwd_patterns, text), LAMBDA st, result :
                IF Truthy(result)
                THEN IF IntRaises(result[1]) THEN Raised(st) ELSE
                     [st EXCEPT !.metrics.differently_abled = IntOf(result[1])]
                ELSE st)
        \* HEALTH & SAFETY
        s8 == Then(s7, search_patterns(ltifr_patterns, text), LAMBDA st, result :
                IF Truthy(result) /\ result[1] < Hundred
                THEN [st EXCEPT !.metrics.ltifr = result[1],
                                !.found = Record(@, "ltifr", result[1])]
                ELSE st)
        s9 == Then(s8, search_patterns(fatality_patterns, text), LAMBDA st, result :
                IF result # None
                THEN IF IntRaises(result[1]) THEN Raised(st) ELSE
                     [st EXCEPT !.metrics.fatalities = IntOf(result[1]),
                                !.found = Record(@, "fatalities", IntOf(result[1]))]
                ELSE st)
        s10 == Do(s9, LAMBDA st :
                IF TextHas("fatalities_null", text)
                THEN [st EXCEPT !.metrics.fatalities = 0,
                                !.found = Record(@, "fatalities", 0)]
                ELSE st)
        s11 == Then(s10, search_patterns(injury_patterns, text), LAMBDA st, result :
                IF Truthy(result)
                THEN IF IntRaises(result[1]) THEN Raised(st) ELSE
                     [st EXCEPT !.metrics.recordable_injuries = IntOf(result[1])]
                ELSE st)
        s12 == Then(s11, search_patterns(mandays_patterns, text), LAMBDA st, result :
                IF Truthy(result)
                THEN IF IntRaises(result[1]) THEN Raised(st) ELSE
                     [st EXCEPT !.metrics.man_days_lost = IntOf(result[1])]
                ELSE st)
        \* TRAINING
        s13 == Then(s12, search_patterns(training_patterns, text), LAMBDA st, result :
                IF Truthy(result)
                THEN IF result[1] < 500 * Scale
                     THEN [st EXCEPT !.metrics.training_hours_per_employee = result[1],
                                     !.found = Record(@, "training_hours", result[1])]
                     ELSE [st EXCEPT !.metrics.total_training_hours = result[1],
                                     !.found = Record(@, "training_hours", result[1])]
                ELSE st)
        s14 == Do(s13, LAMBDA st :
                IF /\ StillUnresolved(st.metrics.training_hours_per_employee)
                   /\ st.metrics.total_training_hours > 0
                   /\ st.metrics.total_employees > 0
                THEN [st EXCEPT !.metrics.training_hours_per_employee =
                         Quot(st.metrics.total_training_hours, st.metrics.total_employees)]
                ELSE st)
        \* TURNOVER
        s15 == Then(s14, search_patterns(turnover_patterns, text), LAMBDA st, result :
                IF Truthy(result) /\ result[1] <= Hundred
                THEN [st EXCEPT !.metrics.turnover_rate = result[1]]
                ELSE st)
        \* HUMAN RIGHTS (P5)
        s16 == Then(s15, search_patterns(child_labor_patterns, text), LAMBDA st, result :
                IF result # None
                THEN IF IntRaises(result[1]) THEN Raised(st) ELSE
                     [st EXCEPT !.metrics.child_labor_incidents = IntOf(result[1])]
                ELSE st)
        s17 == Do(s16, LAMBDA st :
                IF TextHas("child_labor_null", text)
                THEN [st EXCEPT !.metrics.child_labor_incidents = 0] ELSE st)
        s18 == Do(s17, LAMBDA st :
                IF TextHas("forced_labor_null", text)
                THEN [st EXCEPT !.metrics.forced_labor_incidents = 0] ELSE st)
        s19 == Then(s18, search_patterns(posh_patterns, text), LAMBDA st, result :
                IF result # None
                THEN IF IntRaises(result[1]) THEN Raised(st) ELSE
                     [st EXCEPT !.metrics.sexual_harassment_complaints = IntOf(result[1])]
                ELSE st)
        s20 == Then(s19, search_patterns(discrimination_patterns, text), LAMBDA st, result :
                IF result # None
                THEN IF IntRaises(result[1]) THEN Raised(st) ELSE
                     [st EXCEPT !.metrics.discrimination_incidents = IntOf(result[1])]
                ELSE st)
        \* CSR (P8)
        s21 == Then(s20, search_patterns(csr_patterns, text), LAMBDA st, result :
                IF Truthy(result)
                THEN [st EXCEPT !.metrics.csr_spending = result[1],
                                !.found = Record(@, "csr_spending", result[1])]
                ELSE st)
        s22 == Then(s21, search_patterns(csr_required_patterns, text), LAMBDA st, result :
                IF Truthy(result)
                THEN [st EXCEPT !.metrics.csr_spending_required = result[1]]
                ELSE st)
        s23 == Do(s22, LAMBDA st :
                IF st.metrics.csr_spending > 0 /\ st.metrics.csr_spending_required > 0
                THEN [st EXCEPT !.metrics.csr_percentage =
                         Percent(st.metrics.csr_spending, st.metrics.csr_spending_required)]
                ELSE st)
        \* CUSTOMER (P9)
        s24 == Then(s23, search_patterns(customer_complaint_patterns, text), LAMBDA st, result :
                IF Truthy(result)
                THEN IF IntRaises(result[1]) THEN Raised(st) ELSE
                     [st EXCEPT !.metrics.customer_complaints = IntOf(result[1])]
                ELSE st)
        s25 == Then(s24, search_patterns(resolved_patterns, text), LAMBDA st, result :
                IF Truthy(result)
                THEN IF IntRaises(result[1]) THEN Raised(st) ELSE
                     [st EXCEPT !.metrics.customer_complaints_resolved = IntOf(result[1])]
                ELSE st)
        s26 == Do(s25, LAMBDA st :
                IF st.metrics.customer_complaints > 0 /\ st.metrics.customer_complaints_resolved > 0
                THEN [st EXCEPT !.metrics.resolution_rate =
                         Percent(st.metrics.customer_complaints_resolved, st.metrics.customer_complaints)]
                ELSE st)
        s27 == Then(s26, search_patterns(breach_patterns, text), LAMBDA st, result :
                IF result # None
                THEN IF IntRaises(result[1]) THEN Raised(st) ELSE
                     [st EXCEPT !.metrics.data_breaches = IntOf(result[1])]
                ELSE st)
        s28 == Do(s27, LAMBDA st :
                IF TextHas("breach_null", text) THEN [st EXCEPT !.metrics.data_breaches = 0] ELSE st)
    IN  s28

-----------------------------------------------------------------------------
(* SECTION C - PRINCIPLE 1: GOVERNANCE                                     *)

\* the plausible range of the board size (line 1342)
BoardSizeOk(result) == Truthy(result) /\ 3 * Scale <= result[1] /\ result[1] <= 25 * Scale

\* EnhancedBRSRParser._extract_governance
extract_governance(text, tabs, found) ==
    LET s0 == [metrics |-> GovernanceMetrics, found |-> found, raised |-> FALSE]
        \* BOARD COMPOSITION
        s1 == Then(s0, search_patterns(board_patterns, text), LAMBDA st, result :
                IF BoardSizeOk(result)
                THEN IF IntRaises(result[1]) THEN Raised(st) ELSE
                     [st EXCEPT !.metrics.board_size = IntOf(result[1]),
                                !.found = Record(@, "board_size", IntOf(result[1]))]
                ELSE st)
        s2 == Then(s1, search_patterns(independent_patterns, text), LAMBDA st, result :
                IF Truthy(result)
                THEN IF IntRaises(result[1]) THEN Raised(st) ELSE
                     [st EXCEPT !.metrics.independent_directors = IntOf(result[1]),
                                !.found = Record(@, "independent_directors", IntOf(result[1]))]
                ELSE st)
        s3 == Then(s2, search_patterns(women_board_patterns, text), LAMBDA st, result :
                IF Truthy(result)
                THEN IF IntRaises(result[1]) THEN Raised(st) ELSE
                     [st EXCEPT !.metrics.women_directors = IntOf(result[1]),
                                !.found = Record(@, "women_directors", IntOf(result[1]))]
                ELSE st)
        s4 == Do(s3, LAMBDA st :
                IF st.metrics.board_size > 0 /\ st.metrics.independent_directors > 0
                THEN [st EXCEPT !.metrics.independent_percentage =
                         Percent(st.metrics.independent_directors, st.metrics.board_size)]
                ELSE st)
        s5 == Do(s4, LAMBDA st :
                IF st.metrics.board_size > 0 /\ st.metrics.women_directors > 0
                THEN [st EXCEPT !.metrics.women_board_percentage =
                         Percent(st.metrics.women_directors, st.metrics.board_size)]
                ELSE st)
        s6 == Then(s5, search_patterns(board_meeting_patterns, text), LAMBDA st, result :
                IF Truthy(result) /\ result[1] <= 20 * Scale
                THEN IF IntRaises(result[1]) THEN Raised(st) ELSE
                     [st EXCEPT !.metrics.board_meetings = IntOf(result[1]),
                                !.found = Record(@, "board_meetings", IntOf(result[1]))]
                ELSE st)
        \* COMMITTEES
        s7 == Then(s6, search_patterns(audit_patterns, text), LAMBDA st, result :
                IF Truthy(result) /\ result[1] <= 15 * Scale
                THEN IF IntRaises(result[1]) THEN Raised(st) ELSE
                     [st EXCEPT !.metrics.audit_committee_meetings = IntOf(result[1])]
                ELSE st)
        s8 == Then(s7, search_patterns(csr_comm_patterns, text), LAMBDA st, result :
                IF Truthy(result)
                THEN IF IntRaises(result[1]) THEN Raised(st) ELSE
                     [st EXCEPT !.metrics.csr_committee_meetings = IntOf(result[1])]
                ELSE st)
        \* ETHICS & COMPLIANCE
        s9 == Then(s8, search_patterns(ethics_patterns, text), LAMBDA st, result :
                IF result # None
                THEN IF IntRaises(result[1]) THEN Raised(st) ELSE
                     [st EXCEPT !.metrics.ethics_complaints = IntOf(result[1])]
                ELSE st)
        s10 == Then(s9, search_patterns(corruption_patterns, text), LAMBDA st, result :
                IF result # None
                THEN IF IntRaises(result[1]) THEN Raised(st) ELSE
                     [st EXCEPT !.metrics.corruption_incidents = IntOf(result[1])]
                ELSE st)
        s11 == Do(s10, LAMBDA st :
                IF TextHas("corruption_null", text)
                THEN [st EXCEPT !.metrics.corruption_incidents = 0] ELSE st)
        s12 == Then(s11, search_patterns(whistle_patterns, text), LAMBDA st, result :
                IF result # None
                THEN IF IntRaises(result[1]) THEN Raised(st) ELSE
                     [st EXCEPT !.metrics.whistleblower_complaints = IntOf(result[1])]
                ELSE st)
        s13 == Then(s12, search_patterns(penalty_patterns, text), LAMBDA st, result :
                IF Truthy(result)
                THEN [st EXCEPT !.metrics.fines_penalties_amount = result[1]]
                ELSE st)
        s14 == Then(s13, search_patterns(ratio_patterns, text), LAMBDA st, result :
                IF Truthy(result)
                THEN [st EXCEPT !.metrics.ceo_to_median_ratio = result[1]]
                ELSE st)
        s15 == Then(s14, search_patterns(gov_training_patterns, text), LAMBDA st, result :
                IF Truthy(result) /\ result[1] <= Hundred
                THEN [st EXCEPT !.metrics.employees_trained_anti_corruption = result[1]]
                ELSE st)
    IN  s15

-----------------------------------------------------------------------------
(* SECTION A - GENERAL DISCLOSURES                                         *)

company_patterns == <<"company_1", "company_2", "company_3">>

\* re.search(pattern, text): the group captured by the first match, if any
RECURSIVE FirstGroup(_, _, _)
FirstGroup(pattern, text, i) ==
    IF i > Len(text) THEN None
    ELSE IF pattern \in Hits(text[i].ph) THEN Some(text[i].raw)
    ELSE FirstGroup(pattern, text, i + 1)

\* a captured name of more than 5 and fewer than 100 characters (line 818)
NameIfValid(name) == IF Len(name) > 5 /\ Len(name) < 100 THEN Some(name) ELSE None

\* match.group(1).strip() of the first match, when it is a valid name
MatchedName(g) == IF g # None THEN NameIfValid(Strip(g[1])) ELSE None

\* the company name loop: the first pattern whose first match is a valid name
\* (lines 815-821)
RECURSIVE CompanyName(_, _)
CompanyName(patterns, text) ==
    IF patterns = << >> THEN None
    ELSE OrElse(MatchedName(FirstGroup(Head(patterns), text, 1)),
                CompanyName(Tail(patterns), text))

\* int(match.group(1))
MatchedYear(g) == IF g # None THEN Some(DigitsVal(g[1])) ELSE None

\* the financial year loop: the first pattern that matches gives the year
\* (lines 834-839)
RECURSIVE FinancialYear(_, _)
FinancialYear(patterns, text) ==
    IF patterns = << >> THEN None
    ELSE OrElse(MatchedYear(FirstGroup(Head(patterns), text, 1)),
                FinancialYear(Tail(patterns), text))

\* if result: data[key] = result
IfTruthy(result) == IF Truthy(result) THEN result ELSE None

\* EnhancedBRSRParser._extract_general_disclosures: the dict it returns, a
\* missing key being None
extract_general_disclosures(text) ==
    [ company_name |-> CompanyName(company_patterns, text),
      cin          |-> FirstGroup("cin", text, 1),
      year         |-> FinancialYear(fy_patterns, text),
      turnover     |-> IfTruthy(search_patterns(revenue_patterns, text)),
      net_worth    |-> IfTruthy(search_patterns(networth_patterns, text)),
      nic_code     |-> FirstGroup("nic_code", text, 1) ]

\* dict.get(key, default)
Get(opt, default) == IF opt = None THEN default ELSE opt[1]

-----------------------------------------------------------------------------
(* MAIN PARSING METHODS                                                    *)

\* datetime.now().year
CurrentYear == 2026

\* result.metrics_total (line 1593)
MetricsTotal == 50

\* the report type read off the text (lines 1564-1572)
ReportTypeOf(text) ==
    IF TextHas("brsr_words", text) THEN "BRSR"
    ELSE IF TextHas("sustainability_report_words", text) THEN "SUSTAINABILITY"
    ELSE IF TextHas("annual_report_words", text) THEN "ANNUAL"
    ELSE "UNKNOWN"

\* metrics_found * 100, the division by metrics_total left out
Undivided(n, total) == n * 100 * Scale

\* (metrics_found / metrics_total) * 100
Confidence(n, total) == Percent(n, total)

\* len(self.metrics_found)
CountFound(found) == Cardinality(DOMAIN found)

\* The BRSRExtractedData that parse fills in (lines 1560-1594): the local
\* `result`.  The fields that parse never writes and to_esg_input never
\* reads, and the wall-clock stamp extraction_time, are left out.
ReportOf(doc, general, environmental, social, governance, raw, confidence, found, total) ==
    [ company_name          |-> Get(general.company_name, << >>),
      cin                   |-> Get(general.cin, << >>),
      year                  |-> Get(general.year, CurrentYear),
      report_type           |-> ReportTypeOf(doc.text),
      sector                |-> << >>,
      industry              |-> << >>,
      nic_code              |-> Get(general.nic_code, << >>),
      turnover              |-> Get(general.turnover, 0),
      net_worth             |-> Get(general.net_worth, 0),
      environmental         |-> environmental,
      social                |-> social,
      governance            |-> governance,
      raw_extractions       |-> raw,
      pages_processed       |-> doc.pages,
      extraction_confidence |-> confidence,
      metrics_found         |-> found,
      metrics_total         |-> total ]

\* An extractor raised: the exception leaves parse.  `result` is the local
\* object as far as it was filled in (its counts still at the dataclass
\* defaults, 0 of 0); found is self.metrics_found at the raise.
Escaped(doc, general, environmental, social, found) ==
    [ result |-> ReportOf(doc, general, environmental, social, GovernanceMetrics, << >>, 0, 0, 0),
      text |-> doc.text, tables |-> doc.tables, found |-> found, raised |-> TRUE ]

\* parse returns `result` (lines 1588-1598)
Returned(doc, general, env, soc, gov) ==
    [ result |-> ReportOf(doc, general, env.metrics, soc.metrics, gov.metrics, gov.found,
                          Confidence(CountFound(gov.found), MetricsTotal),
                          CountFound(gov.found), MetricsTotal),
      text |-> doc.text, tables |-> doc.tables, found |-> gov.found, raised |-> FALSE ]

\* the rest of parse after the three extractors
Extracted(doc, general, env, soc, gov) ==
    IF gov.raised THEN Escaped(doc, general, env.metrics, soc.metrics, gov.found)
    ELSE Returned(doc, general, env, soc, gov)

\* governance = self._extract_governance(), and the rest of parse
ParseGovernance(doc, general, env, soc) ==
    IF soc.raised THEN Escaped(doc, general, env.metrics, SocialMetrics, soc.found)
    ELSE Extracted(doc, general, env, soc, extract_governance(doc.text, doc.tables, soc.found))

\* social = self._extract_social(), and the rest of parse
ParseSocial(doc, general, env) ==
    IF env.raised THEN Escaped(doc, general, EnvironmentalMetrics, SocialMetrics, env.found)
    ELSE ParseGovernance(doc, general, env, extract_social(doc.text, doc.tables, env.found))

\* EnhancedBRSRParser.parse after _extract_pdf returned doc = [text, tables,
\* pages]: the returned BRSRExtractedData, the instance's fields after it
\* and whether an exception left it, given self.metrics_found before it
parse(doc, found) ==
    ParseSocial(doc, extract_general_disclosures(doc.text),
                extract_environmental(doc.text, doc.tables, found))

-----------------------------------------------------------------------------
(* BRSRExtractedData.to_esg_input                                          *)

Max(a, b) == IF a >= b THEN a ELSE b

\* the comparison written >= in place of >: a value of 0 is kept
OrDefaultFromZero(value, default) == IF value >= 0 THEN value ELSE default

\* value if value > 0 else default
OrDefault(value, default) == IF value > 0 THEN value ELSE default

\* if env.total > 0: total / self.turnover, the turnover not looked at
IntensityAnyTurnover(turnover, total, disclosed, default) ==
    IF total > 0 THEN Quot(total, turnover)
    ELSE IF disclosed > 0 THEN disclosed
    ELSE default

\* an intensity: total / turnover when both are positive, else the disclosed
\* intensity when positive, else the default (lines 457-473)
Intensity(turnover, total, disclosed, default) ==
    IF turnover > 0 /\ total > 0 THEN Quot(total, turnover)
    ELSE IF disclosed > 0 THEN disclosed
    ELSE default

\* what a call that raised leaves in place of its result
Failed(exception) == [raised |-> exception]

\* BRSRExtractedData.to_esg_input: the dictionary, or the ZeroDivisionError
\* raised by one of its divisions
to_esg_input(self) ==
    LET env == self.environmental
        soc == self.social
        gov == self.governance
        carbon_intensity ==
            Intensity(self.turnover, env.total_ghg_emissions, env.emission_intensity, 50 * Scale)
        energy_intensity ==
            Intensity(self.turnover, env.total_energy_consumption, env.energy_intensity, 200 * Scale)
        water_intensity ==
            Intensity(self.turnover, env.total_water_withdrawal, env.water_intensity, 300 * Scale)
        women_pct ==
            IF soc.women_percentage = 0 /\ soc.total_employees > 0 /\ soc.women_employees > 0
            THEN Percent(soc.women_employees, soc.total_employees)
            ELSE IF soc.women_percentage = 0 /\ soc.total_employees > 0 /\ soc.female_employees > 0
            THEN Percent(soc.female_employees, soc.total_employees)
            ELSE soc.women_percentage
        csr_pct ==
            IF soc.csr_percentage = 0 /\ soc.csr_spending > 0 /\ soc.csr_spending_required > 0
            THEN Percent(soc.csr_spending, soc.csr_spending_required)
            ELSE soc.csr_percentage
        resolution_rate ==
            IF soc.resolution_rate = 0 /\ soc.customer_complaints > 0
            THEN Percent(soc.customer_complaints_resolved, soc.customer_complaints)
            ELSE soc.resolution_rate
    IN  IF ZeroDivisionError \in {carbon_intensity, energy_intensity, water_intensity,
                                  women_pct, csr_pct, resolution_rate}
        THEN Failed("ZeroDivisionError")
        ELSE
        [ company_name |-> self.company_name,
          industry |-> IF self.industry # << >> THEN self.industry ELSE self.sector,
          year |-> self.year,
          turnover |-> self.turnover,
          \* Environmental
          carbon_emissions_intensity |-> carbon_intensity,
          total_ghg_emissions |-> env.total_ghg_emissions,
          scope1_emissions |-> env.scope1_emissions,
          scope2_emissions |-> env.scope2_emissions,
          scope3_emissions |-> env.scope3_emissions,
          energy_consumption_intensity |-> energy_intensity,
          total_energy_consumption |-> env.total_energy_consumption,
          renewable_energy_percentage |-> OrDefault(env.renewable_energy_percentage, 25 * Scale),
          water_consumption_intensity |-> water_intensity,
          total_water_withdrawal |-> env.total_water_withdrawal,
          water_recycling_percentage |-> env.water_recycling_percentage,
          waste_recycling_rate |-> OrDefault(env.waste_recycling_percentage, 65 * Scale),
          total_waste_generated |-> env.total_waste_generated,
          hazardous_waste |-> env.hazardous_waste,
          environmental_compliance |->
              IF env.environmental_fines = 0 THEN 100 * Scale
              ELSE Max(50 * Scale, 100 * Scale - env.environmental_fines_count * 10),
          \* Social
          total_employees |-> soc.total_employees,
          ltifr |-> IF soc.ltifr > 0 THEN soc.ltifr ELSE OrDefault(soc.ltifr_employees, Scale \div 2),
          fatalities |-> soc.fatalities,
          employee_turnover_rate |-> OrDefault(soc.turnover_rate, 15 * Scale),
          women_workforce_percentage |-> OrDefault(women_pct, 25 * Scale),
          training_hours_per_employee |-> OrDefault(soc.training_hours_per_employee, 20 * Scale),
          csr_spending |-> soc.csr_spending,
          csr_spending_percentage |-> OrDefault(csr_pct, 2 * Scale),
          customer_complaints_resolved |-> OrDefault(resolution_rate, 95 * Scale),
          data_breaches |-> soc.data_breaches + soc.cyber_security_incidents,
          child_labor_incidents |-> soc.child_labor_incidents,
          discrimination_incidents |-> soc.discrimination_incidents,
          sexual_harassment_complaints |-> soc.sexual_harassment_complaints,
          \* Governance
          board_size |-> gov.board_size,
          independent_directors |-> gov.independent_directors,
          independent_directors_percentage |-> OrDefault(gov.independent_percentage, 50 * Scale),
          women_directors |-> gov.women_directors,
          women_directors_percentage |-> OrDefault(gov.women_board_percentage, 17 * Scale),
          board_meetings |-> OrDefault(gov.board_meetings, 6 * Scale),
          audit_committee_meetings |-> OrDefault(gov.audit_committee_meetings, 4 * Scale),
          ceo_median_pay_ratio |-> OrDefault(gov.ceo_to_median_ratio, 100 * Scale),
          ethics_complaints |-> gov.ethics_complaints,
          corruption_incidents |-> gov.corruption_incidents,
          whistleblower_complaints |-> gov.whistleblower_complaints,
          fines_penalties |-> gov.fines_penalties_amount ]

-----------------------------------------------------------------------------
(* The documents                                                           *)

Sent(ph, raw) == [ph |-> ph, raw |-> raw]

\* The sentences of each corpus of reports
Sentences(c) ==
    CASE c = "board" ->
           { Sent("board_comprises", <<"5","0","0","0">>), Sent("board_comprises", <<"1","2">>),
             Sent("board_size", <<"1","0">>) }
      [] c = "energy" ->
           { Sent("energy_total", <<"1","2",",","0","0","0">>), Sent("zero_fatalities", << >>) }
      [] c = "ghg" ->
           { Sent("scope1", <<"1","0","0">>), Sent("scope2", <<"5","0">>),
             Sent("ghg_total", <<"4","0","0">>) }
      [] c = "safety" ->
           { Sent("fatalities_n", <<"3">>), Sent("fatalities_n", <<"0">>),
             Sent("zero_fatalities", << >>) }
      [] c = "compliance" ->
           { Sent("env_fine", <<"5">>), Sent("no_env_fines", << >>) }
      [] c = "ethics" ->
           { Sent("corruption_n", <<"2">>), Sent("no_corruption", << >>) }
      [] c = "rights" ->
           { Sent("child_labour_n", <<"1">>), Sent("no_child_labour", << >>) }
      [] c = "privacy" ->
           { Sent("data_breaches_n", <<"2">>), Sent("no_data_breaches", << >>) }
      [] c = "workforce" ->
           { Sent("employees_total", <<"2","5","0">>), Sent("employees_total", <<",">>) }
      [] c = "identity" ->
           { Sent("fy", <<"2","0","2","3">>),
             Sent("entity_name", <<"A","c","m","e"," ","L","t","d">>),
             Sent("cin_line", <<"L","1","2","3","4","5","M","H","2","0","0","0",
                                "P","L","C","1","2","3","4","5","6">>) }
      [] c = "renewables" ->
           { Sent("renewable_n", <<"4","0">>), Sent("renewable_n", <<"5","0","0","0">>),
             Sent("energy_total", <<"5","0","0">>) }
      [] c = "water" ->
           { Sent("water_total", <<"2","0","0">>), Sent("water_recycled_n", <<"5","0","0">>),
             Sent("water_recycled_n", <<"4","0">>) }
      [] c = "waste" ->
           { Sent("waste_recycled_n", <<"5","0","0">>), Sent("waste_recycled_n", <<"1","0","0">>) }
      [] c = "women" ->
           { Sent("women_n", <<"1","0","0">>), Sent("women_pct_n", <<"4","0">>) }
      [] c = "training" ->
           { Sent("training_n", <<"5","0","0","0">>), Sent("employees_total", <<"2","5","0">>) }
      [] c = "csr" ->
           { Sent("csr_n", <<"5","0","0">>), Sent("csr_required_n", <<"1",",","0","0","0">>) }
      [] c = "customers" ->
           { Sent("complaints_n", <<"1","0">>), Sent("resolved_n", <<"8">>) }
      [] c = "directors" ->
           { Sent("board_size", <<"1","0">>), Sent("independent_n", <<"4">>),
             Sent("women_board_n", <<"2">>) }
      [] c = "posh" ->
           { Sent("posh_n", <<"0">>), Sent("posh_n", <<"3">>) }
      [] c = "intensity" ->
           { Sent("turnover_cr", <<"1","0","0">>), Sent("energy_total", <<"5","0","0">>) }
      [] c = "emissions" ->
           { Sent("scope1", <<"1","0","0">>), Sent("scope2", <<"5","0">>),
             Sent("ghg_total", <<"4","0","0">>) }
      [] OTHER -> {}

\* The tables of each corpus: none, or one table of one row
TablesOf(c) ==
    CASE c = "energy" ->
           { << >>,
             << << <<TotalEnergyCell, <<"5","0","0">>>> >> >>,
             << << <<TotalEnergyCell, <<"4","0","0">>, <<"n","i","l">>>> >> >> }
      [] c = "ghg" ->
           { << >>,
             << << <<Scope1Cell, <<"1","0","0">>>> >> >> }
      [] c = "workforce" ->
           { << >>,
             << << <<TotalEmployeesCell, <<"3","0","0">>>> >> >>,
             << << <<TotalEmployeesCell, <<"i","n","f">>>> >> >> }
      [] c = "women" ->
           { << >>,
             << << <<TotalEmployeesCell, <<"3","0","0">>, <<"0">>>> >> >> }
      [] OTHER -> { << >> }

SeqsUpTo(S, n) == UNION {[1..k -> S] : k \in 0..n}

Doc(text, tabs) == [text |-> text, tables |-> tabs, pages |-> 1]

\* The end-to-end scenario of the specification: a report with total energy
\* 12,000 GJ, Scope 1 500, Scope 2 300 and "zero fatalities"
ScenarioText ==
    << Sent("energy_total", <<"1","2",",","0","0","0">>), Sent("scope1", <<"5","0","0">>),
       Sent("scope2", <<"3","0","0">>), Sent("zero_fatalities", << >>) >>

\* another report the same instance may have parsed: a board of 10 with 4
\* independent directors
BoardText == << Sent("board_size", <<"1","0">>), Sent("independent_n", <<"4">>) >>

\* a report of 250 employees, and the tables of a report whose employees
\* row holds "inf"
WorkforceText == << Sent("employees_total", <<"2","5","0">>) >>
OverflowTables == << << <<TotalEmployeesCell, <<"i","n","f">>>> >> >>

\* The reports (what _extract_pdf returns for them) of a corpus
Docs(c) ==
    IF c = "scenario"
    THEN {Doc(ScenarioText, << >>), Doc(BoardText, << >>)}
    ELSE IF c = "kept"
    THEN {Doc(ScenarioText, << >>), Doc(BoardText, << >>), Doc(WorkforceText, << >>),
          Doc(<< >>, OverflowTables)}
    ELSE {Doc(t, tb) : t \in SeqsUpTo(Sentences(c), MaxLen), tb \in TablesOf(c)}

Corpora ==
    {"board", "energy", "ghg", "safety", "compliance", "ethics", "rights", "privacy", "scenario",
     "identity", "workforce"}

-----------------------------------------------------------------------------
(* The state machine                                                       *)

VARIABLES
    corpus,          \* the reports at hand
    text,            \* self.text
    tables,          \* self.tables
    metrics_found,   \* self.metrics_found
    extracted_data,  \* self.extracted_data: None or the last report
    data,            \* the report the caller holds (parse's return value)
    esg_input,       \* data.to_esg_input(), once the caller asked for it
    raised,          \* the last call of parse ended in an exception
    value,           \* a string given to _clean_number
    cleaned,         \* what _clean_number returned for it, per allow_negative
    objects,         \* the fields of each EnhancedBRSRParser object of the calls
    pc,              \* where each call of parse stands
    frame,           \* the locals of each call of parse
    previous,        \* the first report the parser at hand returned: as returned, and as read now
    PYMUPDF_AVAILABLE,     \* import fitz succeeded
    PDFPLUMBER_AVAILABLE,  \* import pdfplumber succeeded
    disk,            \* the temporary files that exist
    stage,           \* where the call of parse_from_bytes stands
    tmp_path,        \* the temporary file of the call (0 before the first call)
    upload,          \* the PDF of the call: its content and the backends that can read it
    tried,           \* the backends _extract_pdf invoked, in order
    backend,         \* the backend whose result _extract_pdf returned
    error            \* the exception that left the call

vars == <<corpus, text, tables, metrics_found, extracted_data, data, esg_input, raised,
          value, cleaned, objects, pc, frame, previous,
          PYMUPDF_AVAILABLE, PDFPLUMBER_AVAILABLE, disk, stage, tmp_path, upload, tried, backend,
          error>>

\* the variables of the calls of _clean_number on their own
numbers == <<value, cleaned>>

\* the variables of the calls of parse_from_bytes on their own
files ==
    <<PYMUPDF_AVAILABLE, PDFPLUMBER_AVAILABLE, disk, stage, tmp_path, upload, tried, backend, error>>

\* an empty dict
EmptyDict == << >>

\* no call of _clean_number made yet
NotCleaned == [allow_negative \in BOOLEAN |-> None]

\* the variables of the calls of parse that run side by side
calls == <<objects, pc, frame>>

\* the calls of parse that run side by side, and the parser objects they use
Calls == {1, 2}
Objects == {1, 2}

\* the fields of an object after __init__
NewObject ==
    [text |-> << >>, tables |-> << >>, metrics_found |-> EmptyDict, extracted_data |-> None]

\* the dict _extract_general_disclosures starts from
NoGeneral ==
    [ company_name |-> None, cin |-> None, year |-> None, turnover |-> None,
      net_worth |-> None, nic_code |-> None ]

\* the locals of a call parser.parse(doc) before its first statement; the
\* three buckets are those of `result = BRSRExtractedData()`
NewFrame(self, doc) ==
    [ self |-> self, doc |-> doc, general |-> NoGeneral,
      environmental |-> EnvironmentalMetrics, social |-> SocialMetrics,
      governance |-> GovernanceMetrics, returned |-> None ]

\* the two PDF backends, in the order _extract_pdf tries them
Backends == <<"pymupdf", "pdfplumber">>

\* no upload yet
NoUpload == [doc |-> Doc(<< >>, << >>), reads |-> {}]

\* both backends installed, no call of parse_from_bytes made
NoFiles ==
    /\ PYMUPDF_AVAILABLE = TRUE
    /\ PDFPLUMBER_AVAILABLE = TRUE
    /\ disk = {}
    /\ stage = "idle"
    /\ tmp_path = 0
    /\ upload = NoUpload
    /\ tried = << >>
    /\ backend = None
    /\ error = None

\* no call under way
NoCalls ==
    /\ objects = [o \in Objects |-> NewObject]
    /\ pc = [c \in Calls |-> "start"]
    /\ frame = [c \in Calls |-> NewFrame(1, Doc(<< >>, << >>))]

\* no copy made: the report holds the dict self.metrics_found itself, which
\* reads as that dict reads now
SameDict(items, now) == now

\* dict(self.metrics_found) (line 1589), read once self.metrics_found holds
\* `now`: a dict of its own, with the items it was made from
DictCopy(items, now) == items

\* a report object as its holder reads it once self.metrics_found holds
\* `now`: result is a new BRSRExtractedData (line 1560), its buckets the new
\* objects of the extractors, its counts numbers
ReadNow(report, now) == [report EXCEPT !.raw_extractions = DictCopy(@, now)]

\* the first report of the parser at hand after a call of parse that found
\* the caller holding `held` and left self.metrics_found at `now`
Kept(prev, held, now) ==
    IF prev # None
    THEN Some([returned |-> prev[1].returned, now |-> ReadNow(prev[1].now, now)])
    ELSE IF held # None
    THEN Some([returned |-> held[1], now |-> ReadNow(held[1], now)])
    ELSE None

\* EnhancedBRSRParser.__init__
NewParser ==
    /\ text' = << >>
    /\ tables' = << >>
    /\ metrics_found' = EmptyDict
    /\ extracted_data' = None

Init ==
    /\ corpus \in Corpora
    /\ text = << >>
    /\ tables = << >>
    /\ metrics_found = EmptyDict
    /\ extracted_data = None
    /\ data = None
    /\ esg_input = None
    /\ raised = FALSE
    /\ value = << >>
    /\ cleaned = NotCleaned
    /\ NoCalls
    /\ previous = None
    /\ NoFiles

\* parser = EnhancedBRSRParser(): the caller takes a new instance
Construct ==
    /\ extracted_data # None
    /\ NewParser
    /\ previous' = None
    /\ UNCHANGED <<corpus, data, esg_input, raised>>
    /\ UNCHANGED numbers
    /\ UNCHANGED calls
    /\ UNCHANGED files

\* a call of parse on the instance at hand ends as r tells: with a report
\* for the caller, or with an exception
Ends(r) ==
    /\ text' = r.text
    /\ tables' = r.tables
    /\ metrics_found' = r.found
    /\ raised' = r.raised
    /\ IF r.raised
       THEN UNCHANGED <<extracted_data, data, esg_input>>
       ELSE /\ extracted_data' = Some(r.result)
            /\ data' = Some(r.result)
            /\ esg_input' = None
    /\ UNCHANGED corpus
    /\ UNCHANGED numbers
    /\ UNCHANGED calls

\* data = parser.parse(pdf_path) on the instance at hand
Parse ==
    \E doc \in Docs(corpus) :
        \E r \in {parse(doc, metrics_found)} :
            Ends(r) /\ UNCHANGED previous /\ UNCHANGED files

\* esg_input = data.to_esg_input()
ToEsgInput ==
    /\ data # None
    /\ esg_input = None
    /\ esg_input' = Some(to_esg_input(data[1]))
    /\ UNCHANGED <<corpus, text, tables, metrics_found, extracted_data, data, raised, previous>>
    /\ UNCHANGED numbers
    /\ UNCHANGED calls
    /\ UNCHANGED files

Next == Construct \/ Parse \/ ToEsgInput

Spec == Init /\ [][Next]_vars

-----------------------------------------------------------------------------
(* The reports whose fields are derived from other fields, or stored by    *)
(* the magnitude of the number: the same parser session on other reports   *)

DerivedCorpora ==
    {"renewables", "water", "waste", "women", "training", "csr", "customers", "directors", "posh",
     "emissions", "intensity"}

InitDerived ==
    /\ corpus \in DerivedCorpora
    /\ text = << >>
    /\ tables = << >>
    /\ metrics_found = EmptyDict
    /\ extracted_data = None
    /\ data = None
    /\ esg_input = None
    /\ raised = FALSE
    /\ value = << >>
    /\ cleaned = NotCleaned
    /\ NoCalls
    /\ previous = None
    /\ NoFiles

SpecDerived == InitDerived /\ [][Next]_vars

-----------------------------------------------------------------------------
(* The reports a caller keeps: the first report a parser returned, held by  *)
(* the caller while the parser parses further documents                    *)

InitReports ==
    /\ corpus = "kept"
    /\ text = << >>
    /\ tables = << >>
    /\ metrics_found = EmptyDict
    /\ extracted_data = None
    /\ data = None
    /\ esg_input = None
    /\ raised = FALSE
    /\ value = << >>
    /\ cleaned = NotCleaned
    /\ NoCalls
    /\ previous = None
    /\ NoFiles

\* first = parser.parse(a); ...; data = parser.parse(b): the caller still
\* holds the object `first`
ParseKeeping ==
    \E doc \in Docs(corpus) :
        \E r \in {parse(doc, metrics_found)} :
            Ends(r) /\ previous' = Kept(previous, data, r.found) /\ UNCHANGED files

NextReports == Construct \/ ParseKeeping \/ ToEsgInput

SpecReports == InitReports /\ [][NextReports]_vars

-----------------------------------------------------------------------------
(* _clean_number on its own: the strings it is given and what it returns   *)

\* the pieces of the strings: digits, separators, signs, units, a null word
Pieces ==
    { <<"5">>, <<"0">>, <<"1","2">>, <<".">>, <<",">>, <<"(">>, <<")">>, <<"-">>, <<"%">>,
      <<" ">>, <<"L","a","k","h">>, <<"C","r">>, <<"n","i","l">>, <<"rupee">> }

\* the strings of at most n pieces
RECURSIVE Strings(_)
Strings(n) ==
    IF n = 0 THEN { << >> }
    ELSE Strings(n - 1) \cup {s \o piece : s \in Strings(n - 1), piece \in Pieces}

\* the strings the specification gives results for
Examples ==
    { <<"1",",","2","3","4",".","5","6">>, <<"(","5","0","0",")">>,
      <<"5","0"," ","L","a","k","h">>, <<"n","i","l">>, <<"1","2",".","5","%">> }

Inputs == Examples \cup Strings(MaxPieces)

InitNumbers ==
    /\ corpus = "numbers"
    /\ text = << >>
    /\ tables = << >>
    /\ metrics_found = EmptyDict
    /\ extracted_data = None
    /\ data = None
    /\ esg_input = None
    /\ raised = FALSE
    /\ value \in Inputs
    /\ cleaned = NotCleaned
    /\ NoCalls
    /\ previous = None
    /\ NoFiles

\* self._clean_number(value, allow_negative)
CleanNumber(allow_negative) ==
    /\ cleaned[allow_negative] = None
    /\ cleaned' = [cleaned EXCEPT ![allow_negative] = Some(clean_number(value, allow_negative))]
    /\ UNCHANGED <<corpus, text, tables, metrics_found, extracted_data, data, esg_input, raised,
                   value, previous>>
    /\ UNCHANGED calls
    /\ UNCHANGED files

NextNumbers == \E allow_negative \in BOOLEAN : CleanNumber(allow_negative)

SpecNumbers == InitNumbers /\ [][NextNumbers]_vars

-----------------------------------------------------------------------------
(* Two calls of parse side by side, on one parser object or on two.  A     *)
(* call is cut into the steps of lines 1557-1598; a thread switch falls    *)
(* between two steps.  (Python may switch threads inside a step as well;   *)
(* the interleavings of whole steps are among those it produces.)          *)

InitCalls ==
    /\ corpus = "scenario"
    /\ text = << >>
    /\ tables = << >>
    /\ metrics_found = EmptyDict
    /\ extracted_data = None
    /\ data = None
    /\ esg_input = None
    /\ raised = FALSE
    /\ value = << >>
    /\ cleaned = NotCleaned
    /\ objects = [o \in Objects |-> NewObject]
    /\ pc = [c \in Calls |-> "start"]
    /\ frame \in {f \in [Calls -> {NewFrame(o, d) : o \in Objects, d \in Docs("scenario")}] :
                     f[1].self = 1}
    /\ previous = None
    /\ NoFiles

\* the object a call runs on
Self(c) == objects[frame[c].self]

\* where a call stands after an extractor
After(r, next) == IF r.raised THEN "raised" ELSE next

\* self.text, page_count, self.tables = self._extract_pdf(pdf_path), and the
\* report type read off self.text (lines 1557-1572)
Load(c) ==
    /\ pc[c] = "start"
    /\ objects' = [objects EXCEPT ![frame[c].self].text = frame[c].doc.text,
                                  ![frame[c].self].tables = frame[c].doc.tables]
    /\ pc' = [pc EXCEPT ![c] = "general"]
    /\ UNCHANGED frame

\* general = self._extract_general_disclosures() (lines 1575-1581)
General(c) ==
    /\ pc[c] = "general"
    /\ frame' = [frame EXCEPT ![c].general = extract_general_disclosures(Self(c).text)]
    /\ pc' = [pc EXCEPT ![c] = "environmental"]
    /\ UNCHANGED objects

\* result.environmental = self._extract_environmental() (line 1584)
Environmental(c) ==
    /\ pc[c] = "environmental"
    /\ \E r \in {extract_environmental(Self(c).text, Self(c).tables, Self(c).metrics_found)} :
          /\ frame' = [frame EXCEPT ![c].environmental = r.metrics]
          /\ objects' = [objects EXCEPT ![frame[c].self].metrics_found = r.found]
          /\ pc' = [pc EXCEPT ![c] = After(r, "social")]

\* result.social = self._extract_social() (line 1585)
Social(c) ==
    /\ pc[c] = "social"
    /\ \E r \in {extract_social(Self(c).text, Self(c).tables, Self(c).metrics_found)} :
          /\ frame' = [frame EXCEPT ![c].social = r.metrics]
          /\ objects' = [objects EXCEPT ![frame[c].self].metrics_found = r.found]
          /\ pc' = [pc EXCEPT ![c] = After(r, "governance")]

\* result.governance = self._extract_governance() (line 1586)
Governance(c) ==
    /\ pc[c] = "governance"
    /\ \E r \in {extract_governance(Self(c).text, Self(c).tables, Self(c).metrics_found)} :
          /\ frame' = [frame EXCEPT ![c].governance = r.metrics]
          /\ objects' = [objects EXCEPT ![frame[c].self].metrics_found = r.found]
          /\ pc' = [pc EXCEPT ![c] = After(r, "finish")]

\* the counts, self.extracted_data = result, return result (lines 1589-1598)
Finish(c) ==
    /\ pc[c] = "finish"
    /\ \E result \in {ReportOf(frame[c].doc, frame[c].general, frame[c].environmental,
                                frame[c].social, frame[c].governance, Self(c).metrics_found,
                                Confidence(CountFound(Self(c).metrics_found), MetricsTotal),
                                CountFound(Self(c).metrics_found), MetricsTotal)} :
          /\ frame' = [frame EXCEPT ![c].returned = Some(result)]
          /\ objects' = [objects EXCEPT ![frame[c].self].extracted_data = Some(result)]
    /\ pc' = [pc EXCEPT ![c] = "done"]

\* the variables of the other specifications stay as they are
Apart ==
    /\ UNCHANGED <<corpus, text, tables, metrics_found, extracted_data, data, esg_input, raised>>
    /\ UNCHANGED <<value, cleaned, previous>>
    /\ UNCHANGED files

NextCalls ==
    \E c \in Calls :
        \/ Load(c) /\ Apart
        \/ General(c) /\ Apart
        \/ Environmental(c) /\ Apart
        \/ Social(c) /\ Apart
        \/ Governance(c) /\ Apart
        \/ Finish(c) /\ Apart

SpecCalls == InitCalls /\ [][NextCalls]_vars

-----------------------------------------------------------------------------
(* parse_from_bytes: the upload written to a temporary file, read by a PDF  *)
(* backend, parsed, and the file removed.  The file system takes the write *)
(* and the unlink; a backend reads an upload or raises on it.              *)

\* the uploads: a report, and the backends that read its PDF without raising
Uploads ==
    {[doc |-> d, reads |-> rs] :
        d \in {Doc(ScenarioText, << >>), Doc(<< >>, OverflowTables)},
        rs \in SUBSET {Backends[1], Backends[2]}}

InitFiles ==
    /\ corpus = "uploads"
    /\ text = << >>
    /\ tables = << >>
    /\ metrics_found = EmptyDict
    /\ extracted_data = None
    /\ data = None
    /\ esg_input = None
    /\ raised = FALSE
    /\ value = << >>
    /\ cleaned = NotCleaned
    /\ NoCalls
    /\ previous = None
    /\ PYMUPDF_AVAILABLE \in BOOLEAN
    /\ PDFPLUMBER_AVAILABLE \in BOOLEAN
    /\ disk = {}
    /\ stage = "idle"
    /\ tmp_path = 0
    /\ upload = NoUpload
    /\ tried = << >>
    /\ backend = None
    /\ error = None

\* the session of the parser stays as it is
SameSession ==
    /\ UNCHANGED <<corpus, text, tables, metrics_found, extracted_data, data, esg_input, raised,
                   previous>>
    /\ UNCHANGED numbers
    /\ UNCHANGED calls

\* with tempfile.NamedTemporaryFile(delete=False, suffix='.pdf') as tmp_file:
\* a file of a new name is made, the upload written to it (lines 1602-1604)
MakeTemp ==
    /\ stage \in {"idle", "ended"}
    /\ tmp_path < MaxUploads
    /\ \E u \in Uploads : upload' = u
    /\ tmp_path' = tmp_path + 1
    /\ disk' = disk \cup {tmp_path + 1}
    /\ tried' = << >>
    /\ backend' = None
    /\ error' = None
    /\ stage' = "extract_pdf"
    /\ UNCHANGED <<PYMUPDF_AVAILABLE, PDFPLUMBER_AVAILABLE>>
    /\ SameSession

\* the backend is installed
Available(b) == IF b = "pymupdf" THEN PYMUPDF_AVAILABLE ELSE PDFPLUMBER_AVAILABLE

\* the try block without its return: the next backend is tried as well
TryAnyway(b, st) ==
    IF ~Available(b) THEN st
    ELSE [tried |-> Append(st.tried, b),
          backend |-> IF b \in upload.reads THEN Some(b) ELSE st.backend]

\* if <backend>_AVAILABLE: try: return self._extract_text_<backend>(pdf_path)
\* except Exception: logger.warning(...): st is what _extract_pdf has tried
\* and returned so far (lines 1534-1538, 1541-1545)
Try(b, st) ==
    IF st.backend # None \/ ~Available(b) THEN st
    ELSE [tried |-> Append(st.tried, b),
          backend |-> IF b \in upload.reads THEN Some(b) ELSE None]

\* EnhancedBRSRParser._extract_pdf: the backends tried and the one returned
\* from; with none returned from, raise ImportError (line 1547)
extract_pdf == Try(Backends[2], Try(Backends[1], [tried |-> << >>, backend |-> None]))

\* self.text, page_count, self.tables = self._extract_pdf(pdf_path) (line
\* 1557): the call of parse goes on with the document, or ImportError
\* leaves it
ExtractPdf ==
    /\ stage = "extract_pdf"
    /\ tried' = extract_pdf.tried
    /\ backend' = extract_pdf.backend
    /\ IF extract_pdf.backend # None
       THEN /\ stage' = "extract"
            /\ UNCHANGED <<error, raised>>
       ELSE /\ stage' = "finally"
            /\ error' = Some("ImportError")
            /\ raised' = TRUE
    /\ UNCHANGED <<PYMUPDF_AVAILABLE, PDFPLUMBER_AVAILABLE, disk, tmp_path, upload>>
    /\ UNCHANGED <<corpus, text, tables, metrics_found, extracted_data, data, esg_input, previous>>
    /\ UNCHANGED numbers
    /\ UNCHANGED calls

\* the rest of parse (lines 1559-1598): it returns the report, or an
\* extractor raises
Extract ==
    /\ stage = "extract"
    /\ \E r \in {parse(upload.doc, metrics_found)} :
          /\ Ends(r)
          /\ error' = IF r.raised THEN Some("OverflowError") ELSE None
    /\ stage' = "finally"
    /\ UNCHANGED previous
    /\ UNCHANGED <<PYMUPDF_AVAILABLE, PDFPLUMBER_AVAILABLE, disk, tmp_path, upload, tried, backend>>

\* os.unlink placed after the call of parse, with no finally: it is passed
\* over when parse raises
UnlinkOnReturn(files_now, path, exception) ==
    IF exception = None THEN files_now \ {path} ELSE files_now

\* finally: os.unlink(tmp_path) (lines 1609-1610): runs whether parse
\* returned or raised
Finally(files_now, path, exception) == files_now \ {path}

\* the finally block, then the call ends: with the report or the exception
Unlink ==
    /\ stage = "finally"
    /\ disk' = Finally(disk, tmp_path, error)
    /\ stage' = "ended"
    /\ UNCHANGED <<PYMUPDF_AVAILABLE, PDFPLUMBER_AVAILABLE, tmp_path, upload, tried, backend, error>>
    /\ SameSession

NextFiles == MakeTemp \/ ExtractPdf \/ Extract \/ Unlink

SpecFiles == InitFiles /\ [][NextFiles]_vars

-----------------------------------------------------------------------------
(* PROPERTIES                                                              *)

\* the last parse of the instance at hand returned, and its report
Parsed == extracted_data # None /\ ~raised
Report == extracted_data[1]

\* what a freshly constructed parser returns for a document
FreshReport(t, tb) == parse(Doc(t, tb), EmptyDict).result

\* a sentence whose number is captured by the pattern, and the number
Captures(pattern, s) == pattern \in Hits(s.ph) /\ s.raw # << >>
Captured(s) == clean_number(s.raw, FALSE)
Plausible(v) == 3 * Scale <= v /\ v <= 25 * Scale

\* C1: Plausibility rejection.  When a higher-priority board-size pattern
\* captures a number outside [3, 25] and the first plausible capture of the
\* document, in the order of the patterns, is made by a lower-priority
\* pattern, that plausible number is the board size of the report.
C1_PlausibilityRejection ==
    Parsed =>
        \A k \in 1..Len(board_patterns) : \A i \in 1..Len(text) :
            ( /\ Captures(board_patterns[k], text[i])
              /\ Plausible(Captured(text[i]))
              /\ \A k2 \in 1..k : \A i2 \in 1..Len(text) :
                    (k2 < k \/ i2 < i) /\ Captures(board_patterns[k2], text[i2])
                        => ~Plausible(Captured(text[i2]))
              /\ \E k1 \in 1..(k - 1) : \E i1 \in 1..Len(text) :
                    Captures(board_patterns[k1], text[i1]) )
            => Report.governance.board_size = Captured(text[i])

\* C2: Monotonic confidence.  Adding to a document a sentence that matches a
\* pattern of a tracked field never lowers the confidence a fresh parser
\* reports.
C2_MonotonicConfidence ==
    Parsed /\ Report = FreshReport(text, tables) =>
        \A s \in Sentences(corpus) :
            Hits(s.ph) # {} =>
                FreshReport(Append(text, s), tables).extraction_confidence
                    >= Report.extraction_confidence

\* The fields the corpora can resolve, each with its section of the report
\* and the wording of its null phrase ("" when it has none)
TrackedFields ==
    { <<"environmental", "total_energy_consumption", "">>,
      <<"environmental", "scope1_emissions", "">>,
      <<"environmental", "scope2_emissions", "">>,
      <<"environmental", "total_ghg_emissions", "">>,
      <<"environmental", "environmental_fines", "no_env_fines">>,
      <<"social", "fatalities", "zero_fatalities">>,
      <<"social", "child_labor_incidents", "no_child_labour">>,
      <<"social", "data_breaches", "no_data_breaches">>,
      <<"governance", "board_size", "">>,
      <<"governance", "independent_directors", "">>,
      <<"governance", "corruption_incidents", "no_corruption">> }

HasPhrase(t, ph) == \E i \in 1..Len(t) : t[i].ph = ph

\* the tracked fields of report r of text t whose value was obtained by some
\* method: a value other than 0, or a 0 forced by a null phrase
ResolvedFields(r, t) == {f \in TrackedFields : r[f[1]][f[2]] # 0 \/ HasPhrase(t, f[3])}

\* C3: Confidence formula.  In the report a fresh parser returns,
\* metrics_found is the number of tracked fields resolved by any method
\* (pattern, table, derivation, null phrase) and extraction_confidence is
\* 100 times that number over metrics_total.
C3_ConfidenceFormula ==
    Parsed /\ Report = FreshReport(text, tables) =>
        /\ Report.metrics_found = Cardinality(ResolvedFields(Report, text))
        /\ Report.extraction_confidence =
               Percent(Cardinality(ResolvedFields(Report, text)), Report.metrics_total)

\* C4: History independence.  Whatever the instance parsed before, the report
\* it returns for a document is the report a freshly constructed parser
\* returns for it.
C4_HistoryIndependence ==
    Parsed => Report = FreshReport(text, tables)

\* the field values, count and confidence of two reports agree
SameExtraction(r1, r2) ==
    /\ r1.environmental = r2.environmental
    /\ r1.social = r2.social
    /\ r1.governance = r2.governance
    /\ r1.metrics_found = r2.metrics_found
    /\ r1.extraction_confidence = r2.extraction_confidence

\* C5: Idempotence.  A document parsed before a step of the program and
\* parsed again after it yields the same field values, the same metrics_found
\* and the same extraction_confidence.
C5_Idempotence ==
    [][ \A doc \in Docs(corpus) :
            SameExtraction(parse(doc, metrics_found).result, parse(doc, metrics_found').result)
      ]_vars

\* C6: Override precedence.  When the text holds the null phrase of a field
\* (fatalities, environmental fines, child labour incidents, data breaches,
\* corruption incidents) the field is 0 in the report, whatever number a
\* pattern of the field captured; fatalities are moreover recorded as found,
\* with the value 0.
C6_OverridePrecedence ==
    Parsed =>
        /\ \A f \in TrackedFields :
                f[3] # "" /\ HasPhrase(text, f[3]) => Report[f[1]][f[2]] = 0
        /\ HasPhrase(text, "zero_fatalities") =>
                /\ "fatalities" \in DOMAIN Report.raw_extractions
                /\ Report.raw_extractions["fatalities"] = 0

\* a report that says "Fatalities: 3" and then "zero fatalities" was parsed,
\* and its fatalities are 0
C6_Witness ==
    /\ Parsed
    /\ \E i, j \in 1..Len(text) :
            /\ i < j
            /\ text[i] = Sent("fatalities_n", <<"3">>)
            /\ text[j].ph = "zero_fatalities"
    /\ Report.social.fatalities = 0
    /\ "fatalities" \in DOMAIN Report.raw_extractions

\* C7: Derivation correctness.  When Scope 1 and Scope 2 are both resolved
\* and no total-GHG pattern matches, total_ghg_emissions is their sum and is
\* recorded as found with that value.
C7_DerivationCorrectness ==
    ( /\ Parsed
      /\ Report.environmental.scope1_emissions > 0
      /\ Report.environmental.scope2_emissions > 0
      /\ ~HasPhrase(text, "ghg_total") )
    => /\ Report.environmental.total_ghg_emissions =
              Report.environmental.scope1_emissions + Report.environmental.scope2_emissions
       /\ "total_ghg_emissions" \in DOMAIN Report.raw_extractions
       /\ Report.raw_extractions["total_ghg_emissions"] =
              Report.environmental.total_ghg_emissions

\* Scope 1 of 100 and Scope 2 of 50, no total in the text: the total is 150
C7_Witness ==
    /\ Parsed
    /\ ~HasPhrase(text, "ghg_total")
    /\ Report.environmental.scope1_emissions = 100 * Scale
    /\ Report.environmental.scope2_emissions = 50 * Scale
    /\ Report.environmental.total_ghg_emissions = 150 * Scale

\* C8: Derivation precondition.  When only one of Scope 1 and Scope 2 is
\* resolved and no total-GHG pattern matches, total_ghg_emissions stays 0 in
\* the report of a fresh parser and is not recorded as found.
C8_DerivationPrecondition ==
    ( /\ Parsed
      /\ Report = FreshReport(text, tables)
      /\ (Report.environmental.scope1_emissions > 0) # (Report.environmental.scope2_emissions > 0)
      /\ ~HasPhrase(text, "ghg_total") )
    => /\ Report.environmental.total_ghg_emissions = 0
       /\ "total_ghg_emissions" \notin DOMAIN Report.raw_extractions

\* the fields the scenario resolves, with their values
ScenarioValues ==
    { <<"environmental", "total_energy_consumption", 12000 * Scale>>,
      <<"environmental", "scope1_emissions", 500 * Scale>>,
      <<"environmental", "scope2_emissions", 300 * Scale>>,
      <<"environmental", "total_ghg_emissions", 800 * Scale>>,
      <<"social", "fatalities", 0>> }

\* every metric of a section other than the ones the scenario resolves is
\* unresolved: at the default of its dataclass (0, or False for a flag)
OthersUnresolved(section, metrics, defaults) ==
    \A field \in DOMAIN metrics :
        (\A v \in ScenarioValues : <<v[1], v[2]>> # <<section, field>>)
            => metrics[field] = defaults[field]

\* C9: End-to-end scenario.  For the report of the scenario parse returns
\* energy 12000, Scope 1 500, Scope 2 300, total GHG 800, fatalities 0, every
\* other field unresolved, metrics_found = 5 and extraction_confidence =
\* 100 * 5 / metrics_total.
C9_EndToEndScenario ==
    Parsed /\ text = ScenarioText /\ tables = << >> =>
        /\ \A v \in ScenarioValues : Report[v[1]][v[2]] = v[3]
        /\ OthersUnresolved("environmental", Report.environmental, EnvironmentalMetrics)
        /\ OthersUnresolved("social", Report.social, SocialMetrics)
        /\ OthersUnresolved("governance", Report.governance, GovernanceMetrics)
        /\ Report.metrics_found = 5
        /\ Report.extraction_confidence = Percent(5, Report.metrics_total)

\* the keys of to_esg_input that carry a metric of the report as it is
PassThrough ==
    { <<"total_ghg_emissions", "environmental", "total_ghg_emissions">>,
      <<"scope1_emissions", "environmental", "scope1_emissions">>,
      <<"scope2_emissions", "environmental", "scope2_emissions">>,
      <<"scope3_emissions", "environmental", "scope3_emissions">>,
      <<"total_energy_consumption", "environmental", "total_energy_consumption">>,
      <<"total_water_withdrawal", "environmental", "total_water_withdrawal">>,
      <<"water_recycling_percentage", "environmental", "water_recycling_percentage">>,
      <<"total_waste_generated", "environmental", "total_waste_generated">>,
      <<"hazardous_waste", "environmental", "hazardous_waste">>,
      <<"total_employees", "social", "total_employees">>,
      <<"fatalities", "social", "fatalities">>,
      <<"csr_spending", "social", "csr_spending">>,
      <<"child_labor_incidents", "social", "child_labor_incidents">>,
      <<"discrimination_incidents", "social", "discrimination_incidents">>,
      <<"sexual_harassment_complaints", "social", "sexual_harassment_complaints">>,
      <<"board_size", "governance", "board_size">>,
      <<"independent_directors", "governance", "independent_directors">>,
      <<"women_directors", "governance", "women_directors">>,
      <<"ethics_complaints", "governance", "ethics_complaints">>,
      <<"corruption_incidents", "governance", "corruption_incidents">>,
      <<"whistleblower_complaints", "governance", "whistleblower_complaints">>,
      <<"fines_penalties", "governance", "fines_penalties_amount">> }

\* the keys that carry a metric of the report when it is > 0 and a fixed
\* default otherwise
Fallbacks ==
    { <<"renewable_energy_percentage", "environmental", "renewable_energy_percentage", 25 * Scale>>,
      <<"waste_recycling_rate", "environmental", "waste_recycling_percentage", 65 * Scale>>,
      <<"employee_turnover_rate", "social", "turnover_rate", 15 * Scale>>,
      <<"training_hours_per_employee", "social", "training_hours_per_employee", 20 * Scale>>,
      <<"independent_directors_percentage", "governance", "independent_percentage", 50 * Scale>>,
      <<"women_directors_percentage", "governance", "women_board_percentage", 17 * Scale>>,
      <<"board_meetings", "governance", "board_meetings", 6 * Scale>>,
      <<"audit_committee_meetings", "governance", "audit_committee_meetings", 4 * Scale>>,
      <<"ceo_median_pay_ratio", "governance", "ceo_to_median_ratio", 100 * Scale>> }

\* the report the caller holds and its flat projection
Projected == esg_input # None
Held == data[1]
Flat == esg_input[1]

Matches(pattern, t) == \E i \in 1..Len(t) : pattern \in Hits(t[i].ph)
AnyMatches(patterns, t) == \E k \in 1..Len(patterns) : Matches(patterns[k], t)

\* C11: Identity fields are never invented.  When no reporting-year pattern
\* matches the text the report carries year 0, when no company-name pattern
\* matches it its company name is empty, and when the CIN expression does
\* not match it its CIN is empty.
C11_IdentityNeverInvented ==
    Parsed =>
        /\ ~AnyMatches(fy_patterns, text) => Report.year = 0
        /\ ~AnyMatches(company_patterns, text) => Report.company_name = << >>
        /\ ~Matches("cin", text) => Report.cin = << >>

\* the fields for which the reports hold a labelled table row: the section,
\* the field, its text patterns and the label cell of its row
TableFields ==
    { <<"environmental", "total_energy_consumption", energy_patterns, TotalEnergyCell>>,
      <<"environmental", "scope1_emissions", scope1_patterns, Scope1Cell>> }

\* some text pattern of the list captures a number > 0
TextYields(patterns, t) ==
    \E k \in 1..Len(patterns) : \E i \in 1..Len(t) :
        Captures(patterns[k], t[i]) /\ Captured(t[i]) > 0

\* the rows holding the label cell and a cell that cleans to a number > 0
LabelRows(label, tabs) ==
    {i \in 1..Len(AllRows(tabs)) :
        /\ \E j \in 1..Len(AllRows(tabs)[i]) : AllRows(tabs)[i][j] = label
        /\ RightmostPositive(AllRows(tabs)[i], Len(AllRows(tabs)[i])) # None}
FirstLabelRow(label, tabs) ==
    AllRows(tabs)[CHOOSE i \in LabelRows(label, tabs) : \A j \in LabelRows(label, tabs) : i <= j]

\* C12: Table fallback for every field.  For each field, when no text pattern
\* yields a number and a table row holds the field's label, the field's
\* value in the report is the rightmost number of the first such row.
C12_TableFallbackEveryField ==
    Parsed =>
        \A f \in TableFields :
            ~TextYields(f[3], text) /\ LabelRows(f[4], tables) # {} =>
                Report[f[1]][f[2]] =
                    RightmostPositive(FirstLabelRow(f[4], tables),
                                      Len(FirstLabelRow(f[4], tables)))[1]

\* sentence i of the text yields a number > 0 under the pattern
Yields(pattern, t, i) == Captures(pattern, t[i]) /\ Captured(t[i]) > 0

\* v is the number of the first yielding sentence of the first pattern of the
\* list that yields at all
YieldedFirst(patterns, t, v) ==
    \E k \in 1..Len(patterns) : \E i \in 1..Len(t) :
        /\ Yields(patterns[k], t, i) /\ Captured(t[i]) = v
        /\ \A i2 \in 1..(i - 1) : ~Yields(patterns[k], t, i2)
        /\ \A k2 \in 1..(k - 1) : \A i2 \in 1..Len(t) : ~Yields(patterns[k2], t, i2)

\* C13: Priority order.  A board size in the report is the number of the
\* first board pattern, in listed order, that captures a number > 0, never
\* that of a later pattern; total energy is the number of the first energy
\* pattern that captures one whenever a text pattern does, whatever the
\* tables hold, and comes from a table row only when no text pattern
\* captures a number.
C13_PriorityOrder ==
    Parsed =>
        /\ Report.governance.board_size # 0 =>
               YieldedFirst(board_patterns, text, Report.governance.board_size)
        /\ TextYields(energy_patterns, text) =>
               YieldedFirst(energy_patterns, text, Report.environmental.total_energy_consumption)
        /\ Report.environmental.total_energy_consumption # 0
              /\ ~YieldedFirst(energy_patterns, text, Report.environmental.total_energy_consumption) =>
               /\ ~TextYields(energy_patterns, text)
               /\ LabelRows(TotalEnergyCell, tables) # {}

\* a later board pattern matches earlier in the text than the first pattern,
\* both with a plausible number, and the first pattern's number is reported
C13_Witness ==
    /\ Parsed
    /\ Len(text) = 2
    /\ Yields("board_3", text, 1) /\ Plausible(Captured(text[1]))
    /\ Yields("board_1", text, 2) /\ Plausible(Captured(text[2]))
    /\ Captured(text[1]) # Captured(text[2])
    /\ Report.governance.board_size = Captured(text[2])

\* the three buckets of a report as their dataclasses construct them
Buckets ==
    [ environmental |-> EnvironmentalMetrics,
      social        |-> SocialMetrics,
      governance    |-> GovernanceMetrics ]

\* the one field of the buckets that is a flag and not a number
Flags == {"zero_liquid_discharge"}

\* the wordings from which a field can get a value, by a pattern or by a
\* derivation from the fields they resolve
Sources(f) ==
    CASE f = "total_energy_consumption" -> {"energy_total"}
      [] f = "scope1_emissions"         -> {"scope1"}
      [] f = "scope2_emissions"         -> {"scope2"}
      [] f = "total_ghg_emissions"      -> {"ghg_total", "scope1", "scope2"}
      [] f = "environmental_fines"      -> {"env_fine"}
      [] f = "fatalities"               -> {"fatalities_n"}
      [] f = "child_labor_incidents"    -> {"child_labour_n"}
      [] f = "data_breaches"            -> {"data_breaches_n"}
      [] f = "board_size"               -> {"board_comprises", "board_size"}
      [] f = "independent_directors"    -> {"independent_n"}
      [] f = "independent_percentage"   -> {"independent_n"}
      [] f = "corruption_incidents"     -> {"corruption_n"}
      [] f = "total_employees"          -> {"employees_total"}
      [] OTHER                          -> {}

\* nothing in the text or the tables speaks of the field
NothingFound(f, t, tb) ==
    /\ \A i \in 1..Len(t) : t[i].ph \notin Sources(f)
    /\ f = "total_energy_consumption" => LabelRows(TotalEnergyCell, tb) = {}
    /\ f = "total_employees" => LabelRows(TotalEmployeesCell, tb) = {}

\* C14: Completeness of the report.  Every report holds every field of the
\* environmental, social and governance buckets, once each; a field of which
\* the document says nothing holds the value its dataclass gives it, and
\* that value is 0 (False for the one flag).
C14_Completeness ==
    Parsed =>
        \A b \in DOMAIN Buckets :
            /\ DOMAIN Report[b] = DOMAIN Buckets[b]
            /\ \A f \in DOMAIN Buckets[b] :
                   /\ IF f \in Flags THEN Buckets[b][f] = FALSE ELSE Buckets[b][f] = 0
                   /\ NothingFound(f, text, tables) => Report[b][f] = Buckets[b][f]

\* a report in which one field was found and the others stand at 0
C14_Witness ==
    /\ Parsed
    /\ Report.environmental.scope1_emissions = 100 * Scale
    /\ NothingFound("scope3_emissions", text, tables)
    /\ Report.environmental.scope3_emissions = 0
    /\ Report.social.total_employees = 0
    /\ Report.governance.board_size = 0

\* the keys the extractors write into self.metrics_found
RecordedKeys ==
    { "total_energy_consumption", "renewable_energy", "scope1_emissions", "scope2_emissions",
      "total_ghg_emissions", "total_water_withdrawal", "water_recycled",
      "total_waste_generated", "waste_recycled",
      "total_employees", "women_employees", "ltifr", "fatalities", "training_hours",
      "csr_spending",
      "board_size", "independent_directors", "women_directors", "board_meetings" }

\* C15: Confidence range.  After any sequence of parse calls on an instance,
\* the report has 0 <= metrics_found <= metrics_total and
\* 0 <= extraction_confidence <= 100: the keys counted are among the
\* nineteen the extractors write, fewer than metrics_total.
C15_ConfidenceRange ==
    Parsed =>
        /\ DOMAIN Report.raw_extractions \subseteq RecordedKeys
        /\ Cardinality(RecordedKeys) <= Report.metrics_total
        /\ Report.metrics_found = Cardinality(DOMAIN Report.raw_extractions)
        /\ 0 <= Report.metrics_found /\ Report.metrics_found <= Report.metrics_total
        /\ 0 <= Report.extraction_confidence /\ Report.extraction_confidence <= 100 * Scale

\* the largest count the reports reach: the scenario parsed by an instance
\* that parsed the board report before
C15_Witness ==
    /\ Parsed
    /\ Report # FreshReport(text, tables)
    /\ Report.metrics_found = 7
    /\ Report.extraction_confidence = 14 * Scale

\* C16: Local error recovery.  No call of parse ends in an exception: a
\* capture or a cell that does not convert to a usable number counts as no
\* match, the matches, patterns and fields after it are still evaluated, and
\* the call returns a report with every field.
C16_LocalErrorRecovery ==
    /\ ~raised
    /\ Parsed =>
          /\ \A b \in DOMAIN Buckets : DOMAIN Report[b] = DOMAIN Buckets[b]
          /\ TextYields(employee_patterns, text) =>
                 YieldedFirst(employee_patterns, text, Report.social.total_employees)

\* _clean_number was called on the string with this allow_negative, and what
\* it returned
Called(allow_negative) == cleaned[allow_negative] # None
Result(allow_negative) == cleaned[allow_negative][1]
IsString(s) == value = s

\* C17: Normalization results.  _clean_number returns 1234.56 for
\* "1,234.56", 500 for "(500)" and -500 with allow_negative, 0.5 for
\* "50 Lakh", 0 for "nil" and 12.5 for "12.5%"; and for every string the
\* result without allow_negative is the absolute value of the result with it.
C17_NormalizationResults ==
    /\ Called(FALSE) =>
          /\ IsString(<<"1",",","2","3","4",".","5","6">>) => Result(FALSE) = 1234 * Scale + 56
          /\ IsString(<<"(","5","0","0",")">>) => Result(FALSE) = 500 * Scale
          /\ IsString(<<"5","0"," ","L","a","k","h">>) => Result(FALSE) = Scale \div 2
          /\ IsString(<<"n","i","l">>) => Result(FALSE) = 0
          /\ IsString(<<"1","2",".","5","%">>) => Result(FALSE) = 12 * Scale + Scale \div 2
    /\ Called(TRUE) /\ IsString(<<"(","5","0","0",")">>) => Result(TRUE) = 0 - 500 * Scale
    /\ Called(FALSE) /\ Called(TRUE) => Result(FALSE) = Abs(Result(TRUE))

\* "(500)" cleaned both ways
C17_Witness ==
    /\ IsString(<<"(","5","0","0",")">>)
    /\ Called(FALSE) /\ Result(FALSE) = 500 * Scale
    /\ Called(TRUE) /\ Result(TRUE) = 0 - 500 * Scale

\* the string is not empty and holds no digit; the string is one of the
\* null-like words
NoDigits(s) == s # << >> /\ \A i \in 1..Len(s) : ~IsDigit(s[i])
NullLike(s) == LowerStr(Strip(s)) \in NullTokens

\* C18: Normalization failure is distinct from zero.  For a string that
\* holds no digit and is not a null-like word _clean_number returns an
\* outcome other than the number 0, and for a null-like word it returns 0,
\* so that a caller can tell the two apart.
C18_FailureDistinctFromZero ==
    \A allow_negative \in BOOLEAN :
        Called(allow_negative) =>
            /\ NullLike(value) => Result(allow_negative) = 0
            /\ NoDigits(value) /\ ~NullLike(value) => Result(allow_negative) # 0

\* the call has returned, and the report it returned
Done(c) == pc[c] = "done"
ReturnedReport(c) == frame[c].returned[1]

\* a derivation step of the call has run: its locals hold a total of GHG
\* emissions that no sentence of the text states
DerivationRan(c) ==
    /\ frame[c].environmental.total_ghg_emissions # 0
    /\ ~HasPhrase(Self(c).text, "ghg_total")

\* every resolution and override step of the call has run: the three
\* extractors are through
AllResolved(c) == pc[c] \in {"finish", "done"}

\* C19: Two-phase barrier.  Within one parse a derivation step runs only
\* after the resolution and override steps of every field have run.
C19_TwoPhaseBarrier ==
    \A c \in Calls : DerivationRan(c) => AllResolved(c)

\* C20: Concurrent parsing does not interfere.  Under every interleaving of
\* two calls of parse, on one parser object or on two, each call returns the
\* report a parser returns for its document alone.
C20_NoInterference ==
    \A c \in Calls :
        Done(c) => ReturnedReport(c) = FreshReport(frame[c].doc.text, frame[c].doc.tables)

\* what a report records of how a field was obtained: its key in
\* raw_extractions (the report has no other record of a source)
RecordedAsFound(r, f) == f[2] \in DOMAIN r.raw_extractions

\* C21: Provenance.  The report of a fresh parser records for every tracked
\* field whether it was obtained: a field is without a record exactly when
\* nothing was found, derived or overridden for it, and then its value is 0.
C21_Provenance ==
    Parsed /\ Report = FreshReport(text, tables) =>
        \A f \in TrackedFields :
            /\ (~RecordedAsFound(Report, f)) <=> (f \notin ResolvedFields(Report, text))
            /\ ~RecordedAsFound(Report, f) => Report[f[1]][f[2]] = 0

Ratios ==
    { <<"environmental", "renewable_energy_percentage", "renewable_energy",
        "total_energy_consumption">>,
      <<"environmental", "water_recycling_percentage", "water_recycled",
        "total_water_withdrawal">>,
      <<"social", "csr_percentage", "csr_spending", "csr_spending_required">>,
      <<"social", "resolution_rate", "customer_complaints_resolved", "customer_complaints">>,
      <<"governance", "independent_percentage", "independent_directors", "board_size">>,
      <<"governance", "women_board_percentage", "women_directors", "board_size">> }

\* both inputs of a ratio are resolved in the report
BothResolved(r, d) == r[d[1]][d[3]] > 0 /\ r[d[1]][d[4]] > 0

\* C23: Dependency order of derivations.  Every derived value of a report
\* is the derivation applied to the inputs as the report holds them, a table
\* fallback included: no input was resolved or changed after the value was
\* derived from it.
C23_DependencyOrder ==
    Parsed =>
        /\ \A d \in Ratios :
               BothResolved(Report, d) =>
                   Report[d[1]][d[2]] = Percent(Report[d[1]][d[3]], Report[d[1]][d[4]])
        /\ ~TextYields(total_ghg_patterns, text) =>
               Report.environmental.total_ghg_emissions =
                   Report.environmental.scope1_emissions + Report.environmental.scope2_emissions
        /\ Report.social.women_employees > 0 /\ Report.social.total_employees > 0 =>
               \/ Report.social.women_percentage =
                      Percent(Report.social.women_employees, Report.social.total_employees)
               \/ YieldedFirst(women_pct_patterns, text, Report.social.women_percentage)
        /\ Report.social.total_training_hours > 0 /\ Report.social.total_employees > 0 =>
               Report.social.training_hours_per_employee =
                   Quot(Report.social.total_training_hours, Report.social.total_employees)

\* the employees came from a table row only, and the women percentage was
\* derived from them: 100 women of 300
C23_Witness ==
    /\ Parsed
    /\ ~TextYields(employee_patterns, text)
    /\ Report.social.total_employees = 300 * Scale
    /\ Report.social.women_employees = 100 * Scale
    /\ Report.social.women_percentage = Percent(100, 300)

\* the fields a derivation may write that a text pattern can resolve too:
\* the section, the field, its patterns and the largest number stored in it
Derivable ==
    { <<"environmental", "renewable_energy_percentage", renewable_patterns, Hundred>>,
      <<"environmental", "water_recycling_percentage", water_recycled_patterns, Hundred>>,
      <<"social", "women_percentage", women_pct_patterns, Hundred>>,
      <<"social", "training_hours_per_employee", training_patterns, 500 * Scale - 1>> }

\* the number the patterns of the field yield, when it is one the field stores
FoundFor(f, t) ==
    {Captured(t[i]) : i \in {i \in 1..Len(t) :
        YieldedFirst(f[3], t, Captured(t[i])) /\ Captured(t[i]) <= f[4]}}

\* C24: Derivation never overwrites a found value.  A field whose value was
\* accepted from a text pattern holds that value in the report, whatever a
\* derivation could compute for it; the total of GHG emissions is the number
\* of its pattern whenever one matched.
C24_NoOverwrite ==
    Parsed =>
        /\ \A f \in Derivable : \A v \in FoundFor(f, text) : Report[f[1]][f[2]] = v
        /\ TextYields(total_ghg_patterns, text) =>
               YieldedFirst(total_ghg_patterns, text, Report.environmental.total_ghg_emissions)

\* the text gives the women percentage as 40 and 100 women employees, a
\* table 300 employees: the derivation could compute 33.33 and the report
\* holds the 40 found
C24_Witness ==
    /\ Parsed
    /\ Report.social.women_employees = 100 * Scale
    /\ Report.social.total_employees = 300 * Scale
    /\ Report.social.women_percentage = 40 * Scale
    /\ 40 * Scale \in FoundFor(<<"social", "women_percentage", women_pct_patterns, Hundred>>, text)

\* the fields stored by the magnitude of the matched number: the patterns,
\* the percentage field, the absolute-quantity field, and the total the
\* percentage is derived against ("" when the code derives none)
ByMagnitude ==
    { <<renewable_patterns, "renewable_energy_percentage", "renewable_energy",
        "total_energy_consumption">>,
      <<water_recycled_patterns, "water_recycling_percentage", "water_recycled",
        "total_water_withdrawal">>,
      <<waste_recycled_patterns, "waste_recycling_percentage", "waste_recycled", "">> }

\* the percentage of a report in which the absolute quantity v was stored
DerivedFrom(env, h, v) ==
    IF h[4] # "" /\ env[h[4]] > 0 THEN Percent(v, env[h[4]]) ELSE 0

\* the numbers the patterns of the field yield first
Matched(h, t) == {Captured(t[i]) : i \in {i \in 1..Len(t) : YieldedFirst(h[1], t, Captured(t[i]))}}

\* C25: Unit heuristic.  For renewable energy, recycled water and recycled
\* waste a matched number v <= 100 is stored as the percentage and the
\* absolute quantity stays 0; v > 100 is stored as the absolute quantity,
\* and the percentage is then the one derived from it when the total is
\* positive and 0 otherwise; with no match both fields are 0.
C25_UnitHeuristic ==
    Parsed =>
        \A h \in ByMagnitude :
            /\ \A v \in Matched(h, text) :
                   IF v <= 100 * Scale
                   THEN /\ Report.environmental[h[2]] = v
                        /\ Report.environmental[h[3]] = 0
                   ELSE /\ Report.environmental[h[3]] = v
                        /\ Report.environmental[h[2]] = DerivedFrom(Report.environmental, h, v)
            /\ Matched(h, text) = {} =>
                   /\ Report.environmental[h[2]] = 0
                   /\ Report.environmental[h[3]] = 0

\* recycled water of 500 against a withdrawal of 200: the number is stored
\* as the quantity, not as the percentage, and the percentage is derived
C25_Witness ==
    /\ Parsed
    /\ 500 * Scale \in Matched(<<water_recycled_patterns, "water_recycling_percentage",
                                  "water_recycled", "total_water_withdrawal">>, text)
    /\ Report.environmental.water_recycled = 500 * Scale
    /\ Report.environmental.total_water_withdrawal = 200 * Scale
    /\ Report.environmental.water_recycling_percentage = 250 * Scale

\* the backends _extract_pdf invoked
Invoked == {tried[i] : i \in 1..Len(tried)}

\* _extract_pdf has ended, by a return or by its raise
ExtractPdfEnded == stage \in {"extract", "finally", "ended"}

\* the installed backends
Installed == {b \in {Backends[1], Backends[2]} : Available(b)}

\* C26: when _extract_pdf has ended, PyMuPDF was invoked first if it is
\* installed; if it read the PDF its result was returned and pdfplumber was
\* never invoked; pdfplumber was invoked only with PyMuPDF not installed or
\* having raised; and ImportError left the call exactly when no installed
\* backend read the PDF (every one of them raised, or none is installed).
C26_BackendFallback ==
    ExtractPdfEnded =>
        /\ PYMUPDF_AVAILABLE => (tried # << >> /\ tried[1] = Backends[1])
        /\ (PYMUPDF_AVAILABLE /\ Backends[1] \in upload.reads) =>
               (backend = Some(Backends[1]) /\ tried = <<Backends[1]>>)
        /\ Backends[2] \in Invoked =>
               (~PYMUPDF_AVAILABLE \/ Backends[1] \notin upload.reads)
        /\ backend # None => (backend[1] \in Installed /\ backend[1] \in upload.reads)
        /\ (error = Some("ImportError")) <=> (Installed \cap upload.reads = {})

\* both backends installed, both able to read the upload: PyMuPDF returned
\* and the parse went on
C26_Witness ==
    /\ stage = "ended"
    /\ PYMUPDF_AVAILABLE /\ PDFPLUMBER_AVAILABLE
    /\ upload.reads = {Backends[1], Backends[2]}
    /\ backend = Some(Backends[1])
    /\ tried = <<Backends[1]>>
    /\ error = None

\* C27: whenever no call of parse_from_bytes is under way, no temporary file
\* exists: the file of the call that ended is deleted, whether parse
\* returned a report or raised, and so is the file of every earlier call;
\* during a call the only temporary file is the one of that call.
C27_TempFileCleanup ==
    /\ stage \in {"idle", "ended"} => disk = {}
    /\ disk \subseteq {tmp_path}

\* a second call ended by the exception of an extractor, after a first call
C27_Witness ==
    /\ stage = "ended"
    /\ tmp_path = 2
    /\ error = Some("OverflowError")
    /\ disk = {}

\* the pattern lists the extractors hand to _search_patterns
TextPatternLists ==
    { revenue_patterns, networth_patterns, energy_patterns, renewable_patterns,
      intensity_patterns, scope1_patterns, scope2_patterns, scope3_patterns,
      total_ghg_patterns, emission_intensity_patterns, water_patterns, water_recycled_patterns,
      waste_patterns, hazardous_patterns, waste_recycled_patterns, ewaste_patterns,
      plastic_patterns, fines_patterns, employee_patterns, women_patterns, women_pct_patterns,
      workers_patterns, pwd_patterns, ltifr_patterns, fatality_patterns, injury_patterns,
      mandays_patterns, training_patterns, turnover_patterns, child_labor_patterns,
      posh_patterns, discrimination_patterns, csr_patterns, csr_required_patterns,
      customer_complaint_patterns, resolved_patterns, breach_patterns, board_patterns,
      independent_patterns, women_board_patterns, board_meeting_patterns, audit_patterns,
      csr_comm_patterns, ethics_patterns, corruption_patterns, whistle_patterns,
      penalty_patterns, ratio_patterns, gov_training_patterns }

\* the row pattern lists the extractors hand to _search_table_patterns
RowPatternLists == {energy_row_patterns, employee_row_patterns}

\* the columns of a row, and -1 for "each cell from the right"
Columns == {-1, 0, 1, 2}

\* what a search returned is None or a number > 0
NoneOrPositive(r) == r = None \/ (r[1] # NaN /\ r[1] > 0)

\* the expressions of the null-phrase overrides
NullPhrases == {"fines_null", "fatalities_null", "child_labor_null", "breach_null", "corruption_null"}

\* a sentence that discloses the number 0 and that no null phrase matches
DisclosesZero(s) == s.raw = <<"0">> /\ \A e \in NullPhrases : ~PhraseHit(e, s)
NotZero(s) == ~DisclosesZero(s)

\* C28: Numeric zero is never accepted as a match.  Over the text and the
\* tables of every document, _search_patterns with every pattern list and
\* _search_table_patterns with every row pattern list and column return None
\* or a number > 0; and the report of a document that discloses a value of
\* 0 in sentences no null phrase matches is the report of the same document
\* without those sentences: each such field is left unresolved ("POSH
\* complaints: 0" alone gives the report of an empty document).
C28_ZeroNeverMatches ==
    /\ \A pl \in TextPatternLists : NoneOrPositive(search_patterns(pl, text))
    /\ \A rp \in RowPatternLists : \A col \in Columns :
           NoneOrPositive(search_table_patterns(rp, col, tables))
    /\ (Parsed /\ \E i \in 1..Len(text) : DisclosesZero(text[i])) =>
           Report = FreshReport(SelectSeq(text, NotZero), tables)

\* "POSH complaints: 0" parsed: the first POSH pattern matches, its number
\* is 0, and the complaints of the report are as in a report that says
\* nothing of them
C28_Witness ==
    /\ Parsed
    /\ text = <<Sent("posh_n", <<"0">>)>>
    /\ Captures(posh_patterns[1], text[1])
    /\ Captured(text[1]) = 0
    /\ search_patterns(posh_patterns, text) = None
    /\ Report.social.sexual_harassment_complaints = 0

\* the percentage-valued fields of a report, by section
PercentageFields ==
    { <<"environmental", "renewable_energy_percentage">>,
      <<"environmental", "water_recycling_percentage">>,
      <<"environmental", "waste_recycling_percentage">>,
      <<"social", "women_percentage">>,
      <<"social", "csr_percentage">>,
      <<"social", "resolution_rate">>,
      <<"governance", "independent_percentage">>,
      <<"governance", "women_board_percentage">> }

\* C29: Percentage bounds.  In every report returned by parse, every
\* percentage-valued field lies between 0 and 100, matched or derived.
C29_PercentageBounds ==
    Parsed =>
        \A f \in PercentageFields :
            /\ Report[f[1]][f[2]] # NaN
            /\ 0 <= Report[f[1]][f[2]]
            /\ Report[f[1]][f[2]] <= Hundred

\* the fields of a report that hold the result of a division
Quotients ==
    { <<"environmental", "renewable_energy_percentage">>,
      <<"environmental", "water_recycling_percentage">>,
      <<"social", "women_percentage">>,
      <<"social", "training_hours_per_employee">>,
      <<"social", "csr_percentage">>,
      <<"social", "resolution_rate">>,
      <<"governance", "independent_percentage">>,
      <<"governance", "women_board_percentage">> }

\* the intensities of to_esg_input and the totals they divide
Intensities ==
    { <<"carbon_emissions_intensity", "total_ghg_emissions">>,
      <<"energy_consumption_intensity", "total_energy_consumption">>,
      <<"water_consumption_intensity", "total_water_withdrawal">> }

\* C30: No division by zero.  No division of parse or of to_esg_input is
\* made with a divisor of 0: no quotient of a report and no call of
\* to_esg_input is a ZeroDivisionError, a quotient of the report that was
\* derived has a divisor > 0 in the report, and an intensity is the total
\* by the turnover only with a turnover > 0.
C30_NoDivisionByZero ==
    /\ extracted_data # None =>
           /\ \A q \in Quotients : Report[q[1]][q[2]] # ZeroDivisionError
           /\ Report.extraction_confidence # ZeroDivisionError
           /\ Report.metrics_total > 0
    /\ Parsed =>
           \A d \in Ratios :
               (Report[d[1]][d[3]] > 0 /\ Report[d[1]][d[2]] =
                    Percent(Report[d[1]][d[3]], Report[d[1]][d[4]])) => Report[d[1]][d[4]] > 0
    /\ esg_input # None =>
           /\ esg_input[1] # Failed("ZeroDivisionError")
           /\ \A n \in Intensities :
                  data[1].turnover = 0 =>
                      esg_input[1][n[1]] \in {50 * Scale, 200 * Scale, 300 * Scale}

\* a report with turnover 100 and total energy 500 projected: the energy
\* intensity is the quotient 5, the two other totals are 0 and not divided
C30_Witness ==
    /\ esg_input # None
    /\ data[1].turnover = 100 * Scale
    /\ data[1].environmental.total_energy_consumption = 500 * Scale
    /\ esg_input[1].energy_consumption_intensity = 5 * Scale
    /\ esg_input[1].carbon_emissions_intensity = 50 * Scale

====
